---- MODULE Spec2Model ----
(***************************************************************************)
(* parsync: the concurrent transfer engine.                                *)
(*   copy             (src/src/lib.rs)   producer / worker pool copy       *)
(*   delete           (src/src/lib.rs)   producer / worker pool delete     *)
(*   sync_dir_chunked (src/src/sync.rs)  chunked incremental sync          *)
(* Each engine is a specification of its own over the shared variables:    *)
(* SpecCopy, SpecDelete, SpecSync.                                         *)
(***************************************************************************)
EXTENDS Integers, Sequences, FiniteSets, TLC

\* Largest thread count a caller passes (0 is a legal usize).
MaxThreads == 2
\* the sizes of the file and of the chunk in the chunk job generation
MaxFileSize == 8
MaxChunkSize == 5

VARIABLES
    \* ---- call arguments (fixed by Init) ----
    engine,             \* the entry point called: "copy", "delete" or "sync"
    before,             \* ghost: the trees as they were before the call
    threads,            \* options.threads / threads
    dry_run,            \* options.dry_run / dry_run
    include,            \* Option<&Regex>
    exclude,            \* Option<&Regex>
    both_local,         \* copy: is_local_src && is_local_dst
    no_preserve_times,  \* copy: options.no_preserve_times
    \* ---- pipeline shared by copy and delete ----
    senders,            \* live Sender handles of the job channel
    queue,              \* the unbounded job channel (FIFO)
    ppc,                \* producer thread position
    pcur,               \* the walk entry the producer is at
    sent_size,          \* copy producer's local `size` of the job it sent
    visited,            \* walk entries the producer has been through
    unlisted,           \* ghost: entries whose walk item was an Err
    wpc,                \* worker thread position
    wjob,               \* the job a worker holds
    errors,             \* Arc<Mutex<Vec<SyncError>>>
    mainpc,             \* position of the calling thread
    result,             \* what the call returned
    pbLen,              \* progress bar length (total)
    pbPos,              \* progress bar position (processed)
    \* ---- copy ----
    dst,                \* destination files: path -> file
    dstDirs,            \* destination directories that exist
    dstLinks,           \* destination symlinks: <<path, target>>
    created_dirs,       \* per worker HashSet<PathBuf>
    handled,            \* ghost: how often each job has been processed
    mutations,          \* ghost: number of mutating calls issued
    \* ---- delete ----
    tree,               \* entries of the tree that still exist
    dirs,               \* producer's buffered directories
    started,            \* ghost: entries whose backend.delete has been entered
    finished,           \* ghost: entries whose backend.delete has returned
    injected,           \* ghost: the backend has injected a fault
    enq,                \* ghost: the items the delete producer has sent, in order
    deq,                \* ghost: the items the delete workers have received, in order
    \* ---- sync_dir_chunked ----
    chunk_size,         \* argument chunk_size
    files,              \* Vec<FileJob> the producer still has to go through
    done_senders,       \* live Sender handles of the progress channel
    done_q,             \* the progress channel
    pbt,                \* progress thread position
    dstOps,             \* ghost: <<path, call>> made on destination files
    failed,             \* ghost: items whose copy or chunk write failed
    written,            \* ghost: chunk jobs whose bytes were written
    route,              \* ghost: what the producer did with each file
    reported,           \* ghost: bytes sent to the progress channel, per file
    wchunk,             \* the chunk job a sync worker is about to write
    unopened,           \* ghost: chunk jobs whose destination could not be opened
    \* ---- one job of a copy worker, call by call ----
    jpc,                \* position in the body of the worker loop
    copied,             \* the local `copied` / fast_copy's copied_bytes
    src_time,           \* the Option<SystemTime> handed to fast_copy as src_modified
    attempts,           \* ghost: the calls made for the job, with their results
    \* ---- LocalBackend called directly ----
    ret,                \* the last backend call and what it returned
    put_data,           \* ghost: per path, the data of a put that returned Ok and still stands
    \* ---- the directory comparison ----
    src_files_paths,    \* the relative paths WalkDir yields under the source root
    dest_files_paths,   \* the relative paths WalkDir yields under the destination root
    differing,          \* the common entries whose metadata comparison returns Failed
    status              \* what each implementation of compare_dirs returned

pipeVars == <<senders, queue, ppc, pcur, sent_size, visited, unlisted, wpc, wjob, errors, mainpc, result, pbLen, pbPos>>
argVars  == <<engine, before, threads, dry_run, include, exclude, both_local, no_preserve_times>>
copyVars == <<dst, dstDirs, created_dirs, handled, mutations>>
delVars  == <<tree, dirs, started, finished, injected>>
syncVars == <<chunk_size, files, done_senders, done_q, pbt, dstOps, failed, written,
              route, reported>>
jobVars  == <<jpc, copied, src_time, attempts>>
backVars == <<ret, put_data>>
fifoVars == <<enq, deq>>
cmpVars  == <<src_files_paths, dest_files_paths, differing, status>>
vars     == <<argVars, pipeVars, copyVars, dstLinks, delVars, syncVars, jobVars, backVars, fifoVars, wchunk, unopened,
             cmpVars>>

Workers == 1..MaxThreads

\* Option<&Regex>: a regex is modelled by the set of path strings it matches.
None == [some |-> FALSE, re |-> {}]
Some(re) == [some |-> TRUE, re |-> re]
is_match(re, path) == path \in re

\* the exclude test of lib.rs 83-87 left out
PassesFiltersIncludeOnly(path) ==
    include.some => is_match(include.re, path)

\* lib.rs 78-87 / 443-452: include must match, exclude must not.
PassesFilters(path) ==
    /\ (include.some => is_match(include.re, path))
    /\ (exclude.some => ~is_match(exclude.re, path))

Min(a, b) == IF a < b THEN a ELSE b
Max(a, b) == IF a > b THEN a ELSE b
Prefix(s, k) == SubSeq(s, 1, Min(k, Len(s)))

NoResult == [kind |-> "none", count |-> 0]
NoJob == "-"

(***************************************************************************)
(* Files.  A file is [exists, data, mtime]; data is its byte sequence.     *)
(* Modification times are compared for equality only.                      *)
(***************************************************************************)
Absent == [exists |-> FALSE, data |-> <<>>, mtime |-> "none"]
File(data, mtime) == [exists |-> TRUE, data |-> data, mtime |-> mtime]

\* The source tree handed to copy: a.txt and dir/b.bin under source_path.
CopyFiles == {"a.txt", "dir/b.bin"}
\* and a symbolic link ln, which WalkDir (links not followed) lists as a link
CopyLinks == {"ln"}
LinkTarget(l) == "gone"
CopyWalk == CopyFiles \cup CopyLinks
SrcData(p) == IF p = "a.txt" THEN <<1, 2>> ELSE <<3>>
SrcFile(p) == File(SrcData(p), "t_src")
\* dst_file.parent(), relative to dest_path ("." is dest_path itself).
Parent(p) == IF p = "a.txt" THEN "." ELSE "dir"
\* the directories std::fs::create_dir_all(parent) brings into existence
DirChain(d) == IF d = "." THEN {"."} ELSE {".", "dir"}

(***************************************************************************)
(* fast_copy (linux), lib.rs 321-397.  f is the outcome of each call it    *)
(* makes: open_src, open_dst, ficlone (ioctl == 0), cfr / sendfile (bytes  *)
(* the loop moved before it stopped), std_copy (fs::copy Ok), set_mtime.   *)
(* The fault sets are taken over the length of the source file.            *)
(***************************************************************************)
FastCopyFaults(size) ==
    [open_src : BOOLEAN, open_dst : BOOLEAN, ficlone : BOOLEAN,
     cfr : 0..size, sendfile : 0..size, std_copy : BOOLEAN, set_mtime : BOOLEAN]

fast_copy(src, d, size, src_modified, preserve_times, f) ==
    IF ~f.open_src THEN [file |-> d, copied |-> 0]
    ELSE IF ~f.open_dst THEN [file |-> d, copied |-> 0]
    ELSE
      LET accel ==
              IF f.ficlone THEN [data |-> src.data, copied |-> size]
              ELSE IF f.cfr > 0 THEN [data |-> Prefix(src.data, f.cfr), copied |-> f.cfr]
              ELSE IF f.sendfile > 0
                   THEN [data |-> Prefix(src.data, f.sendfile), copied |-> f.sendfile]
              ELSE [data |-> <<>>, copied |-> 0]
          tiers ==
              IF accel.copied = 0
              THEN IF f.std_copy
                   THEN [data |-> src.data, copied |-> Len(src.data)]
                   ELSE [data |-> <<>>, copied |-> 0]
              ELSE accel
          mt == IF preserve_times /\ src_modified /\ f.set_mtime
                THEN src.mtime ELSE "t_now"
      IN [file |-> File(tiers.data, mt), copied |-> tiers.copied]

\* LocalBackend::copy_file, backends/local.rs 25-44.
CopyFileFaults(size) ==
    [std_copy : BOOLEAN, open_src : BOOLEAN, create_dst : BOOLEAN,
     stream_ok : BOOLEAN, written : 0..size]

copy_file(src, d, f) ==
    IF f.std_copy THEN [file |-> File(src.data, "t_now"), ok |-> TRUE]
    ELSE IF ~f.open_src THEN [file |-> d, ok |-> FALSE]
    ELSE IF ~f.create_dst THEN [file |-> d, ok |-> FALSE]
    ELSE IF f.stream_ok THEN [file |-> File(src.data, "t_now"), ok |-> TRUE]
    ELSE [file |-> File(Prefix(src.data, f.written), "t_now"), ok |-> FALSE]

\* lib.rs 197-261: what follows fast_copy returning 0.
\* Fallback 1 is std::fs::copy (+ mtime), fallback 2 is copy_file.
FallbackFaults(size) ==
    [std_copy : BOOLEAN, src_meta : BOOLEAN, set_mtime : BOOLEAN,
     cf : CopyFileFaults(size)]

IoError(p) == [kind |-> "Io", job |-> p]
OtherError(p) == [kind |-> "Other", job |-> p]

CopyFallback(p, src, d, size, f) ==
    IF f.std_copy
    THEN [file |-> File(src.data,
                        IF ~no_preserve_times /\ f.src_meta /\ f.set_mtime
                        THEN src.mtime ELSE "t_now"),
          copied |-> Len(src.data), errs |-> <<>>]
    ELSE LET cf == copy_file(src, d, f.cf)
         IN IF cf.ok
            THEN [file |-> cf.file, copied |-> size, errs |-> <<>>]
            ELSE [file |-> cf.file, copied |-> 0, errs |-> <<OtherError(p)>>]

\* LocalBackend::put, backends/local.rs 68-72: File::create then write_all.
PutFaults(size) == [create : BOOLEAN, written : 0..size]

\* the file opened for append in place of File::create
put_append(d, data, f) ==
    IF ~f.create THEN [file |-> d, ok |-> FALSE]
    ELSE IF f.written < Len(data)
         THEN [file |-> File(d.data \o Prefix(data, f.written), "t_now"), ok |-> FALSE]
         ELSE [file |-> File(d.data \o data, "t_now"), ok |-> TRUE]

put(d, data, f) ==
    IF ~f.create THEN [file |-> d, ok |-> FALSE]
    ELSE IF f.written < Len(data)
         THEN [file |-> File(Prefix(data, f.written), "t_now"), ok |-> FALSE]
         ELSE [file |-> File(data, "t_now"), ok |-> TRUE]

(***************************************************************************)
(* copy, lib.rs 40-318.                                                    *)
(***************************************************************************)
\* One iteration of the worker loop, lib.rs 155-295, as the set of its
\* possible outcomes: the destination file, the directories created, what
\* enters the worker's created_dirs cache, the errors pushed, the progress
\* increment and whether a mutating call was issued.
Outcome(file, newDirs, cache, errs, inc, mut) ==
    [file |-> file, dirs |-> newDirs, cache |-> cache, errs |-> errs,
     inc |-> inc, mut |-> mut]

\* the dry_run test of lib.rs 165 left out: the job is copied
DryRunOutcomesNoTest(p, size) ==
    {Outcome(File(SrcData(p), "t_now"), DirChain(Parent(p)), {}, <<>>, size, 1)}

\* lib.rs 165-170
DryRunOutcomes(p, size) == {Outcome(dst[p], {}, {}, <<>>, size, 0)}

\* lib.rs 173-265
LocalOutcomes(w, p, size) ==
    LET parent == Parent(p)
        mkdir  == parent \notin created_dirs[w]
        made   == IF mkdir THEN DirChain(parent) ELSE {}
        cache  == IF mkdir THEN {parent} ELSE {}
        src    == SrcFile(p)
        fcs    == {fast_copy(src, dst[p], size, m, ~no_preserve_times, f) :
                      m \in BOOLEAN, f \in FastCopyFaults(Len(src.data))}
    IN  (IF mkdir THEN {Outcome(dst[p], {}, {}, <<IoError(p)>>, size, 1)} ELSE {})
        \cup {Outcome(fc.file, made, cache, <<>>, Max(fc.copied, size), 1) :
                 fc \in {x \in fcs : x.copied # 0}}
        \cup UNION {
               {LET fb == CopyFallback(p, src, fc.file, size, g)
                IN Outcome(fb.file, made, cache, fb.errs,
                           IF fb.errs = <<>> THEN Max(fb.copied, size) ELSE size, 1) :
                   g \in FallbackFaults(Len(src.data))} :
               fc \in {x \in fcs : x.copied = 0}}

\* lib.rs 266-294: source.get, create_dir_all, dest.put.
RemoteOutcomes(p, size) ==
    LET parent == Parent(p)
        src    == SrcFile(p)
    IN  {Outcome(dst[p], {}, {}, <<OtherError(p)>>, size, 0)}          \* get failed
        \cup {Outcome(dst[p], {}, {}, <<IoError(p)>>, size, 1)}        \* mkdir failed
        \cup {LET r == put(dst[p], src.data, f)
              IN Outcome(r.file, DirChain(parent), {},
                         IF r.ok THEN <<>> ELSE <<IoError(p)>>, size, 1) :
                 f \in PutFaults(Len(src.data))}

CopyJobOutcomes(w, p, size) ==
    IF dry_run THEN DryRunOutcomes(p, size)
    ELSE IF both_local THEN LocalOutcomes(w, p, size)
    ELSE RemoteOutcomes(p, size)

\* errors.len() > 1 in place of !errors.is_empty()
AggregateResultOffByOne(errs) ==
    IF Len(errs) > 1 THEN [kind |-> "Other", count |-> Len(errs)]
    ELSE [kind |-> "Ok", count |-> 0]

\* lib.rs 310-317 / 552-559.
AggregateResult(errs) ==
    IF Len(errs) # 0 THEN [kind |-> "Other", count |-> Len(errs)]
    ELSE [kind |-> "Ok", count |-> 0]

\* Producer, lib.rs 66-117: one walk entry per step.  A walk item that is an
\* Err is dropped by filter_map(|e| e.ok()) (lib.rs 72).  Only regular files
\* are considered (lib.rs 74-76: an entry whose file_type is not a file is
\* passed over); a file that passes the filters is sent with its size, which
\* is 0 when entry.metadata() fails (lib.rs 93).
CopyProducerSend(p) ==
    /\ engine = "copy"
    /\ ppc = "walk"
    /\ p \in CopyWalk \ visited
    /\ visited' = visited \cup {p}
    /\ pcur' = p
    /\ \E listed \in (IF p \in CopyFiles THEN BOOLEAN ELSE {TRUE}) :
         /\ unlisted' = IF listed THEN unlisted ELSE unlisted \cup {p}
         /\ IF listed /\ p \in CopyFiles /\ PassesFilters(p)
            THEN \E meta_ok \in BOOLEAN :
                   LET size == IF meta_ok THEN Len(SrcData(p)) ELSE 0
                   IN /\ queue' = Append(queue, [path |-> p, size |-> size])
                      /\ sent_size' = size
                      /\ ppc' = "account"
            ELSE UNCHANGED <<queue, sent_size, ppc>>
    /\ UNCHANGED <<argVars, cmpVars, unopened, wchunk, fifoVars, backVars, dstLinks, jobVars, senders, wpc, wjob, errors, mainpc, result, pbLen, pbPos,
                   copyVars, delVars, syncVars>>

\* lib.rs 97-113: total_bytes += size; pb.set_length(total_bytes).
CopyProducerAccount ==
    /\ engine = "copy"
    /\ ppc = "account"
    /\ pbLen' = pbLen + sent_size
    /\ ppc' = "walk"
    /\ UNCHANGED <<argVars, cmpVars, unopened, wchunk, fifoVars, backVars, sent_size, dstLinks, jobVars, unlisted, senders, queue, pcur, visited, wpc, wjob, errors, mainpc,
                   result, pbPos, copyVars, delVars, syncVars>>

\* lib.rs 116: the walk is over, drop(tx_producer).
CopyProducerDone ==
    /\ engine = "copy"
    /\ ppc = "walk"
    /\ visited = CopyWalk
    /\ ppc' = "done"
    /\ senders' = senders \ {"tx_producer"}
    /\ UNCHANGED <<argVars, cmpVars, unopened, wchunk, fifoVars, backVars, sent_size, dstLinks, jobVars, unlisted, queue, pcur, visited, wpc, wjob, errors, mainpc, result,
                   pbLen, pbPos, copyVars, delVars, syncVars>>

\* drop(tx) of lib.rs 118 left out: main keeps its Sender while it joins
SpawnWorkersKeepTx ==
    /\ mainpc = "spawn"
    /\ wpc' = [w \in Workers |-> IF w <= threads THEN "recv" ELSE "none"]
    /\ mainpc' = "join_producer"
    /\ UNCHANGED <<argVars, cmpVars, unopened, wchunk, fifoVars, backVars, sent_size, dstLinks, jobVars, unlisted, senders, queue, ppc, pcur, visited, wjob, errors, result, pbLen,
                   pbPos, copyVars, delVars, syncVars>>

\* lib.rs 118-299: drop(tx), then spawn options.threads workers.
SpawnWorkers ==
    /\ mainpc = "spawn"
    /\ senders' = senders \ {"tx"}
    /\ wpc' = [w \in Workers |-> IF w <= threads THEN "recv" ELSE "none"]
    /\ mainpc' = "join_producer"
    /\ UNCHANGED <<argVars, cmpVars, unopened, wchunk, fifoVars, backVars, sent_size, dstLinks, jobVars, unlisted, queue, ppc, pcur, visited, wjob, errors, result, pbLen, pbPos,
                   copyVars, delVars, syncVars>>

\* lib.rs 155-295: rx.recv() returns a job and the worker handles it.
CopyWorker(w) ==
    /\ engine = "copy"
    /\ wpc[w] = "recv"
    /\ queue # <<>>
    /\ LET job == Head(queue)
       IN \E o \in CopyJobOutcomes(w, job.path, job.size) :
            /\ dst' = [dst EXCEPT ![job.path] = o.file]
            /\ dstDirs' = dstDirs \cup o.dirs
            /\ created_dirs' = [created_dirs EXCEPT ![w] = @ \cup o.cache]
            /\ errors' = errors \o o.errs
            /\ pbPos' = pbPos + o.inc
            /\ mutations' = mutations + o.mut
            /\ handled' = [handled EXCEPT ![job.path] = @ + 1]
    /\ queue' = Tail(queue)
    /\ UNCHANGED <<argVars, cmpVars, unopened, wchunk, fifoVars, backVars, sent_size, dstLinks, jobVars, unlisted, senders, ppc, pcur, visited, wpc, wjob, mainpc, result, pbLen,
                   delVars, syncVars>>

\* the worker leaves its loop as soon as the channel is empty (try_recv)
WorkerExitOnEmpty(w) ==
    /\ wpc[w] = "recv"
    /\ queue = <<>>
    /\ wpc' = [wpc EXCEPT ![w] = "exit"]
    /\ UNCHANGED <<argVars, cmpVars, unopened, wchunk, fifoVars, backVars, sent_size, dstLinks, jobVars, unlisted, senders, queue, ppc, pcur, visited, wjob, errors, mainpc, result,
                   pbLen, pbPos, copyVars, delVars, syncVars>>

\* lib.rs 155, 296: rx.recv() is Err once the channel is empty and every
\* Sender is gone; the worker leaves its loop.
WorkerExit(w) ==
    /\ wpc[w] = "recv"
    /\ queue = <<>>
    /\ senders = {}
    /\ wpc' = [wpc EXCEPT ![w] = "exit"]
    /\ UNCHANGED <<argVars, cmpVars, unopened, wchunk, fifoVars, backVars, sent_size, dstLinks, jobVars, unlisted, senders, queue, ppc, pcur, visited, wjob, errors, mainpc, result,
                   pbLen, pbPos, copyVars, delVars, syncVars>>

\* lib.rs 301 / 544: producer.join().
JoinProducer ==
    /\ mainpc = "join_producer"
    /\ ppc = "done"
    /\ mainpc' = "join_workers"
    /\ UNCHANGED <<argVars, cmpVars, unopened, wchunk, fifoVars, backVars, sent_size, dstLinks, jobVars, unlisted, senders, queue, ppc, pcur, visited, wpc, wjob, errors, result,
                   pbLen, pbPos, copyVars, delVars, syncVars>>

\* lib.rs 302-317 / 545-559: join every worker, then read the error list.
JoinWorkers ==
    /\ mainpc = "join_workers"
    /\ \A w \in Workers : wpc[w] \in {"exit", "none"}
    /\ mainpc' = "returned"
    /\ result' = AggregateResult(errors)
    /\ UNCHANGED <<argVars, cmpVars, unopened, wchunk, fifoVars, backVars, sent_size, dstLinks, jobVars, unlisted, senders, queue, ppc, pcur, visited, wpc, wjob, errors, pbLen,
                   pbPos, copyVars, delVars, syncVars>>

IncludeChoices == {None, Some({"a.txt", "ln"})}
ExcludeChoices == {None, Some({"a.txt"})}

\* The destination before the call: empty, or holding an older a.txt.
DstChoices ==
    {[p \in CopyFiles |-> Absent],
     [p \in CopyFiles |-> IF p = "a.txt" THEN File(<<7, 7, 7>>, "t_old") ELSE Absent]}

PipeInit ==
    /\ threads \in 0..MaxThreads
    /\ dry_run \in BOOLEAN
    /\ senders = {"tx", "tx_producer"}
    /\ queue = <<>>
    /\ ppc = "walk"
    /\ pcur = NoJob
    /\ visited = {}
    /\ unlisted = {}
    /\ sent_size = 0
    /\ wpc = [w \in Workers |-> "none"]
    /\ wjob = [w \in Workers |-> NoJob]
    /\ errors = <<>>
    /\ mainpc = "spawn"
    /\ result = NoResult
    /\ pbPos = 0

CopyIdle ==
    /\ dst \in DstChoices
    /\ dstDirs = (IF dst["a.txt"].exists THEN {"."} ELSE {})
    /\ dstLinks = {}
    /\ created_dirs = [w \in Workers |-> {}]
    /\ handled = [p \in CopyFiles |-> 0]
    /\ mutations = 0

SyncIdle ==
    /\ chunk_size = 0
    /\ files = <<>>
    /\ done_senders = {}
    /\ done_q = <<>>
    /\ pbt = "none"
    /\ dstOps = {}
    /\ failed = {}
    /\ written = {}
    /\ route = <<>>
    /\ reported = <<>>

JobIdle ==
    /\ jpc = "none"
    /\ copied = 0
    /\ src_time = "unread"
    /\ attempts = <<>>

\* no backend call has been made
NoCall == [op |-> "none", path |-> NoJob, ok |-> TRUE, data |-> <<>>, found |-> FALSE,
           faulted |-> FALSE]
NoPut  == [some |-> FALSE, data |-> <<>>]
BackIdle ==
    /\ ret = NoCall
    /\ put_data = [p \in CopyFiles |-> NoPut]

NoChunk == [path |-> NoJob, chunk_index |-> 0, offset |-> 0, size |-> 0]

\* no directory comparison has been made
NoStatus == [synchronizer |-> "none", local_protocol |-> "none", main |-> "none"]
CmpIdle ==
    /\ src_files_paths = {}
    /\ dest_files_paths = {}
    /\ differing = {}
    /\ status = NoStatus

FifoIdle ==
    /\ enq = <<>>
    /\ deq = <<>>

DeleteIdle ==
    /\ tree = {}
    /\ dirs = <<>>
    /\ started = {}
    /\ finished = {}
    /\ injected = FALSE

InitCopy ==
    /\ engine = "copy"
    /\ PipeInit
    /\ include \in IncludeChoices
    /\ exclude \in ExcludeChoices
    /\ both_local \in BOOLEAN
    /\ no_preserve_times \in BOOLEAN
    /\ pbLen = 0
    /\ CopyIdle
    /\ DeleteIdle
    /\ SyncIdle
    /\ JobIdle
    /\ BackIdle
    /\ FifoIdle
    /\ CmpIdle
    /\ wchunk = [w \in Workers |-> NoChunk]
    /\ unopened = {}
    /\ before = [dst |-> dst, dirs |-> dstDirs, tree |-> tree]

NextCopy ==
    \/ \E p \in CopyWalk : CopyProducerSend(p)
    \/ CopyProducerAccount
    \/ CopyProducerDone
    \/ SpawnWorkers
    \/ \E w \in Workers : CopyWorker(w)
    \/ \E w \in Workers : WorkerExit(w)
    \/ JoinProducer
    \/ JoinWorkers

SpecCopy == InitCopy /\ [][NextCopy]_vars

(***************************************************************************)
(* One job of a copy worker, lib.rs 155-295 with fast_copy (lib.rs 321-397)*)
(* and LocalBackend::copy_file (backends/local.rs 25-44), call by call.    *)
(* Worker 1 has received the job (wjob[1], its declared size is the        *)
(* source's length) and runs the body of its loop once.                    *)
(***************************************************************************)
JobPath == wjob[1]
JobSize == Len(SrcData(JobPath))
Call(name, ok, n) == [call |-> name, ok |-> ok, n |-> n]

\* what every step of the job leaves alone
JobFrame ==
    UNCHANGED <<argVars, cmpVars, unopened, wchunk, fifoVars, backVars, sent_size, dstLinks, unlisted, senders, queue, ppc, pcur, visited, wpc, wjob, mainpc,
                result, pbLen, delVars, syncVars>>

\* a step that neither ends the job nor touches the file system
JobGoto(pc) ==
    /\ jpc' = pc
    /\ UNCHANGED <<dst, dstDirs, created_dirs, errors, pbPos, handled, mutations>>

\* a call that acts on the destination file and goes on
JobWrite(pc, file) ==
    /\ jpc' = pc
    /\ dst' = [dst EXCEPT ![JobPath] = file]
    /\ mutations' = mutations + 1
    /\ UNCHANGED <<dstDirs, created_dirs, errors, pbPos, handled>>

\* the iteration ends: errors pushed, pb.inc(inc), back to rx.recv()
JobEnd(errs, inc) ==
    /\ jpc' = "done"
    /\ errors' = errors \o errs
    /\ pbPos' = pbPos + inc
    /\ handled' = [handled EXCEPT ![JobPath] = @ + 1]

\* lib.rs 165-173: the dry_run test, then the both_local test.
JobBegin ==
    /\ jpc = "recv"
    /\ IF dry_run
       THEN /\ JobEnd(<<>>, JobSize)
            /\ UNCHANGED <<dst, dstDirs, created_dirs, mutations>>
       ELSE JobGoto(IF both_local THEN "mkdir" ELSE "get")
    /\ UNCHANGED <<copied, src_time, attempts>>
    /\ JobFrame

\* lib.rs 174-185: create_dir_all(parent) unless the worker has it cached.
JobMkdir ==
    /\ jpc = "mkdir"
    /\ IF Parent(JobPath) \in created_dirs[1]
       THEN JobGoto("src_meta") /\ UNCHANGED attempts
       ELSE \E ok \in BOOLEAN :
              /\ attempts' = Append(attempts, Call("create_dir_all", ok, 0))
              /\ mutations' = mutations + 1
              /\ IF ok
                 THEN /\ dstDirs' = dstDirs \cup DirChain(Parent(JobPath))
                      /\ created_dirs' = [created_dirs EXCEPT ![1] = @ \cup {Parent(JobPath)}]
                      /\ jpc' = "src_meta"
                      /\ UNCHANGED <<dst, errors, pbPos, handled>>
                 ELSE /\ JobEnd(<<IoError(JobPath)>>, JobSize)
                      /\ UNCHANGED <<dst, dstDirs, created_dirs>>
    /\ UNCHANGED <<copied, src_time>>
    /\ JobFrame

\* lib.rs 192-194: metadata(src).ok().and_then(|m| m.modified().ok()).
JobSrcMeta ==
    /\ jpc = "src_meta"
    /\ \E readable \in BOOLEAN :
         /\ src_time' = readable
         /\ attempts' = Append(attempts, Call("src_modified", readable, 0))
    /\ JobGoto("open_src")
    /\ UNCHANGED copied
    /\ JobFrame

\* fast_copy, lib.rs 333-336: open the source; Err => return 0.
JobOpenSrc ==
    /\ jpc = "open_src"
    /\ \E ok \in BOOLEAN :
         /\ attempts' = Append(attempts, Call("open_src", ok, 0))
         /\ JobGoto(IF ok THEN "open_dst" ELSE "fallback1")
    /\ copied' = 0
    /\ UNCHANGED src_time
    /\ JobFrame

\* fast_copy, lib.rs 337-345: open the destination with create and truncate.
JobOpenDst ==
    /\ jpc = "open_dst"
    /\ \E ok \in BOOLEAN :
         /\ attempts' = Append(attempts, Call("open_dst", ok, 0))
         /\ IF ok THEN JobWrite("ficlone", File(<<>>, "t_now"))
            ELSE JobGoto("fallback1")
    /\ UNCHANGED <<copied, src_time>>
    /\ JobFrame

\* fast_copy, lib.rs 348-351: ioctl(FICLONE) == 0 => copied_bytes = size.
JobFiclone ==
    /\ jpc = "ficlone"
    /\ \E ok \in BOOLEAN :
         /\ attempts' = Append(attempts, Call("ficlone", ok, IF ok THEN JobSize ELSE 0))
         /\ IF ok
            THEN /\ JobWrite("fc_std_copy", File(SrcData(JobPath), "t_now"))
                 /\ copied' = JobSize
            ELSE /\ JobGoto("copy_file_range")
                 /\ UNCHANGED copied
    /\ UNCHANGED src_time
    /\ JobFrame

\* fast_copy, lib.rs 353-367: the copy_file_range loop; it moves k bytes and
\* ends when a call returns n <= 0 or when copied_bytes >= size.
JobCopyFileRange ==
    /\ jpc = "copy_file_range"
    /\ \E k \in 0..JobSize :
         /\ attempts' = Append(attempts, Call("copy_file_range", k > 0, k))
         /\ copied' = k
         /\ JobWrite(IF k = 0 THEN "sendfile" ELSE "fc_std_copy",
                     File(Prefix(SrcData(JobPath), k), "t_now"))
    /\ UNCHANGED src_time
    /\ JobFrame

\* fast_copy, lib.rs 370-381: the sendfile loop, entered with copied_bytes == 0.
JobSendfile ==
    /\ jpc = "sendfile"
    /\ \E k \in 0..JobSize :
         /\ attempts' = Append(attempts, Call("sendfile", k > 0, k))
         /\ copied' = k
         /\ JobWrite("fc_std_copy", File(Prefix(SrcData(JobPath), k), "t_now"))
    /\ UNCHANGED src_time
    /\ JobFrame

\* std::fs::copy run whatever the earlier tiers copied
JobFcStdCopyAlways ==
    /\ jpc = "fc_std_copy"
    /\ \E ok \in BOOLEAN :
         /\ attempts' = Append(attempts, Call("fc_std_copy", ok, IF ok THEN JobSize ELSE 0))
         /\ IF ok
            THEN /\ JobWrite("fc_mtime", File(SrcData(JobPath), "t_now"))
                 /\ copied' = JobSize
            ELSE /\ JobGoto("fc_mtime")
                 /\ UNCHANGED copied
    /\ UNCHANGED src_time
    /\ JobFrame

\* fast_copy, lib.rs 386-388: if copied_bytes == 0, std::fs::copy(..).unwrap_or(0).
JobFcStdCopy ==
    /\ jpc = "fc_std_copy"
    /\ IF copied = 0
       THEN \E ok \in BOOLEAN :
              /\ attempts' = Append(attempts, Call("fc_std_copy", ok, IF ok THEN JobSize ELSE 0))
              /\ IF ok
                 THEN /\ JobWrite("fc_mtime", File(SrcData(JobPath), "t_now"))
                      /\ copied' = JobSize
                 ELSE /\ JobGoto("fc_mtime")
                      /\ UNCHANGED copied
       ELSE /\ JobGoto("fc_mtime")
            /\ UNCHANGED <<copied, attempts>>
    /\ UNCHANGED src_time
    /\ JobFrame

\* fast_copy, lib.rs 390-396: set the mtime (result ignored), return
\* copied_bytes; lib.rs 197: the caller tests copied == 0.
JobFcMtime ==
    /\ jpc = "fc_mtime"
    /\ LET next == IF copied = 0 THEN "fallback1" ELSE "inc"
       IN IF ~no_preserve_times /\ src_time = TRUE
          THEN \E ok \in BOOLEAN :
                 /\ attempts' = Append(attempts, Call("fc_set_mtime", ok, 0))
                 /\ IF ok
                    THEN JobWrite(next, [dst[JobPath] EXCEPT !.mtime = SrcFile(JobPath).mtime])
                    ELSE JobGoto(next)
          ELSE JobGoto(next) /\ UNCHANGED attempts
    /\ UNCHANGED <<copied, src_time>>
    /\ JobFrame

\* the failure of std::fs::copy pushed to the error list before fallback 2
JobFallback1Reports ==
    /\ jpc = "fallback1"
    /\ \E ok \in BOOLEAN :
         /\ attempts' = Append(attempts, Call("std_copy", ok, IF ok THEN JobSize ELSE 0))
         /\ IF ok
            THEN /\ JobWrite(IF no_preserve_times THEN "inc" ELSE "fb1_mtime",
                             File(SrcData(JobPath), "t_now"))
                 /\ copied' = JobSize
            ELSE /\ jpc' = "cf_std_copy"
                 /\ errors' = Append(errors, OtherError(JobPath))
                 /\ UNCHANGED <<dst, dstDirs, created_dirs, pbPos, handled, mutations, copied>>
    /\ UNCHANGED src_time
    /\ JobFrame

\* lib.rs 198-202, 216: fallback 1, std::fs::copy.
JobFallback1 ==
    /\ jpc = "fallback1"
    /\ \E ok \in BOOLEAN :
         /\ attempts' = Append(attempts, Call("std_copy", ok, IF ok THEN JobSize ELSE 0))
         /\ IF ok
            THEN /\ JobWrite(IF no_preserve_times THEN "inc" ELSE "fb1_mtime",
                             File(SrcData(JobPath), "t_now"))
                 /\ copied' = JobSize
            ELSE /\ JobGoto("cf_std_copy")
                 /\ UNCHANGED copied
    /\ UNCHANGED src_time
    /\ JobFrame

\* lib.rs 203-214: metadata(src), modified(), set_file_mtime (result ignored).
JobFb1Mtime ==
    /\ jpc = "fb1_mtime"
    /\ \E readable \in BOOLEAN, ok \in BOOLEAN :
         IF readable
         THEN /\ attempts' = Append(attempts, Call("fb1_set_mtime", ok, 0))
              /\ IF ok
                 THEN JobWrite("inc", [dst[JobPath] EXCEPT !.mtime = SrcFile(JobPath).mtime])
                 ELSE JobGoto("inc")
         ELSE /\ ok
              /\ attempts' = Append(attempts, Call("fb1_src_modified", FALSE, 0))
              /\ JobGoto("inc")
    /\ UNCHANGED <<copied, src_time>>
    /\ JobFrame

\* lib.rs 231-244: both fallbacks failed: one entry in the error list.
JobFail == JobEnd(<<OtherError(JobPath)>>, JobSize)

\* fallback 2, LocalBackend::copy_file, backends/local.rs 26-27, lib.rs 228-230.
JobCfStdCopy ==
    /\ jpc = "cf_std_copy"
    /\ \E ok \in BOOLEAN :
         /\ attempts' = Append(attempts, Call("cf_std_copy", ok, IF ok THEN JobSize ELSE 0))
         /\ IF ok
            THEN /\ JobWrite("inc", File(SrcData(JobPath), "t_now"))
                 /\ copied' = JobSize
            ELSE /\ JobGoto("cf_open")
                 /\ UNCHANGED copied
    /\ UNCHANGED src_time
    /\ JobFrame

\* backends/local.rs 30-31: File::open(src)?, File::create(dst)?.
JobCfOpen ==
    /\ jpc = "cf_open"
    /\ \E open_src \in BOOLEAN, create_dst \in BOOLEAN :
         IF ~open_src
         THEN /\ create_dst
              /\ attempts' = Append(attempts, Call("cf_open_src", FALSE, 0))
              /\ JobFail
              /\ UNCHANGED <<dst, dstDirs, created_dirs, mutations>>
         ELSE /\ attempts' = Append(attempts, Call("cf_create_dst", create_dst, 0))
              /\ IF create_dst
                 THEN JobWrite("cf_stream", File(<<>>, "t_now"))
                 ELSE /\ JobFail
                      /\ UNCHANGED <<dst, dstDirs, created_dirs, mutations>>
    /\ UNCHANGED <<copied, src_time>>
    /\ JobFrame

\* the loop of backends/local.rs 33-41 run for one byte only, then Ok
JobCfStreamOnce ==
    /\ jpc = "cf_stream"
    /\ attempts' = Append(attempts, Call("cf_stream", TRUE, 1))
    /\ dst' = [dst EXCEPT ![JobPath] = File(Prefix(SrcData(JobPath), 1), "t_now")]
    /\ mutations' = mutations + 1
    /\ jpc' = "inc"
    /\ copied' = JobSize
    /\ UNCHANGED <<errors, pbPos, handled, dstDirs, created_dirs, src_time>>
    /\ JobFrame

\* backends/local.rs 33-41: the read / write_all loop; k bytes are written
\* before a call fails, or all of them and the loop ends at n == 0.
JobCfStream ==
    /\ jpc = "cf_stream"
    /\ \E k \in 0..JobSize :
         /\ attempts' = Append(attempts, Call("cf_stream", k = JobSize, k))
         /\ dst' = [dst EXCEPT ![JobPath] = File(Prefix(SrcData(JobPath), k), "t_now")]
         /\ mutations' = mutations + 1
         /\ IF k = JobSize
            THEN /\ jpc' = "inc"
                 /\ copied' = JobSize
                 /\ UNCHANGED <<errors, pbPos, handled>>
            ELSE /\ JobFail
                 /\ UNCHANGED copied
    /\ UNCHANGED <<dstDirs, created_dirs, src_time>>
    /\ JobFrame

\* lib.rs 262-265: pb.inc(copied.max(size)); continue.
JobInc ==
    /\ jpc = "inc"
    /\ JobEnd(<<>>, Max(copied, JobSize))
    /\ UNCHANGED <<dst, dstDirs, created_dirs, mutations, copied, src_time, attempts>>
    /\ JobFrame

\* lib.rs 268, 286-294: source.get; on Err the error is pushed and the
\* iteration ends with pb.inc(size).
JobGet ==
    /\ jpc = "get"
    /\ \E ok \in BOOLEAN :
         /\ attempts' = Append(attempts, Call("get", ok, IF ok THEN JobSize ELSE 0))
         /\ IF ok THEN JobGoto("create_dir_all")
            ELSE /\ JobEnd(<<OtherError(JobPath)>>, JobSize)
                 /\ UNCHANGED <<dst, dstDirs, created_dirs, mutations>>
    /\ UNCHANGED <<copied, src_time>>
    /\ JobFrame

\* lib.rs 270-277: create_dir_all(parent), not cached on this path.
JobRemoteMkdir ==
    /\ jpc = "create_dir_all"
    /\ \E ok \in BOOLEAN :
         /\ attempts' = Append(attempts, Call("create_dir_all", ok, 0))
         /\ mutations' = mutations + 1
         /\ IF ok
            THEN /\ dstDirs' = dstDirs \cup DirChain(Parent(JobPath))
                 /\ jpc' = "put"
                 /\ UNCHANGED <<dst, created_dirs, errors, pbPos, handled>>
            ELSE /\ JobEnd(<<IoError(JobPath)>>, JobSize)
                 /\ UNCHANGED <<dst, dstDirs, created_dirs>>
    /\ UNCHANGED <<copied, src_time>>
    /\ JobFrame

\* lib.rs 279-284, 292-294: dest.put; an Err is pushed; pb.inc(size).
JobPut ==
    /\ jpc = "put"
    /\ \E f \in PutFaults(JobSize) :
         LET r == put(dst[JobPath], SrcData(JobPath), f)
         IN /\ attempts' = Append(attempts, Call("put", r.ok, Len(r.file.data)))
            /\ dst' = [dst EXCEPT ![JobPath] = r.file]
            /\ JobEnd(IF r.ok THEN <<>> ELSE <<IoError(JobPath)>>, JobSize)
    /\ mutations' = mutations + 1
    /\ UNCHANGED <<dstDirs, created_dirs, copied, src_time>>
    /\ JobFrame

\* The tree an earlier copy of the same source with the same options, no
\* call of which failed, has left: lib.rs 188-196 with fast_copy on the local
\* path, lib.rs 268-279 with get and put otherwise.  What was written then
\* carries the time of that write, t_prev.
NoFastCopyFault(size) ==
    [open_src |-> TRUE, open_dst |-> TRUE, ficlone |-> TRUE, cfr |-> size,
     sendfile |-> size, std_copy |-> TRUE, set_mtime |-> TRUE]
Aged(f) == IF f.mtime = "t_now" THEN [f EXCEPT !.mtime = "t_prev"] ELSE f
FirstCopyTree ==
    [p \in CopyFiles |->
        LET size == Len(SrcData(p))
        IN Aged(IF both_local
                THEN fast_copy(SrcFile(p), Absent, size, TRUE, ~no_preserve_times,
                               NoFastCopyFault(size)).file
                ELSE put(Absent, SrcData(p), [create |-> TRUE, written |-> size]).file)]

\* The job is taken with the destination empty, holding an older a.txt, or
\* as an earlier copy left it, and the worker's cache empty or holding the
\* job's parent directory.
InitJob ==
    /\ engine = "job"
    /\ threads = 1
    /\ dry_run \in BOOLEAN
    /\ include = None
    /\ exclude = None
    /\ both_local \in BOOLEAN
    /\ no_preserve_times \in BOOLEAN
    /\ senders = {}
    /\ queue = <<>>
    /\ ppc = "done"
    /\ pcur = NoJob
    /\ visited = CopyWalk
    /\ unlisted = {}
    /\ sent_size = 0
    /\ wpc = [w \in Workers |-> IF w = 1 THEN "recv" ELSE "none"]
    /\ \E p \in CopyFiles : wjob = [w \in Workers |-> IF w = 1 THEN p ELSE NoJob]
    /\ errors = <<>>
    /\ mainpc = "join_workers"
    /\ result = NoResult
    /\ pbLen = JobSize
    /\ pbPos = 0
    /\ dst \in DstChoices \cup {FirstCopyTree}
    /\ \E cached \in BOOLEAN :
         /\ created_dirs = [w \in Workers |->
                               IF w = 1 /\ cached THEN {Parent(JobPath)} ELSE {}]
         /\ dstDirs = (IF cached THEN DirChain(Parent(JobPath)) ELSE {})
                         \cup UNION {DirChain(Parent(p)) : p \in {q \in CopyFiles : dst[q].exists}}
    /\ dstLinks = {}
    /\ handled = [p \in CopyFiles |-> 0]
    /\ mutations = 0
    /\ DeleteIdle
    /\ SyncIdle
    /\ jpc = "recv"
    /\ copied = 0
    /\ src_time = "unread"
    /\ attempts = <<>>
    /\ BackIdle
    /\ FifoIdle
    /\ CmpIdle
    /\ wchunk = [w \in Workers |-> NoChunk]
    /\ unopened = {}
    /\ before = [dst |-> dst, dirs |-> dstDirs, tree |-> tree]

NextJob ==
    \/ JobBegin
    \/ JobMkdir
    \/ JobSrcMeta
    \/ JobOpenSrc
    \/ JobOpenDst
    \/ JobFiclone
    \/ JobCopyFileRange
    \/ JobSendfile
    \/ JobFcStdCopy
    \/ JobFcMtime
    \/ JobFallback1
    \/ JobFb1Mtime
    \/ JobCfStdCopy
    \/ JobCfOpen
    \/ JobCfStream
    \/ JobInc
    \/ JobGet
    \/ JobRemoteMkdir
    \/ JobPut

SpecJob == InitJob /\ [][NextJob]_vars

(***************************************************************************)
(* delete, lib.rs 418-560, on the tree  r/ { f, d/ { g } }.                *)
(***************************************************************************)
DelEntries == {"r", "r/f", "r/d", "r/d/g"}
DelRoot == "r"
IsDir(e) == e \in {"r", "r/d"}
\* b.components().count()
Components(e) == CASE e = "r" -> 1 [] e = "r/f" -> 2 [] e = "r/d" -> 2 [] OTHER -> 3
DirOf(e) == CASE e = "r/f" -> "r" [] e = "r/d" -> "r" [] e = "r/d/g" -> "r/d" [] OTHER -> NoJob
\* the entries below directory d
Below(d) == CASE d = "r" -> {"r/f", "r/d", "r/d/g"} [] d = "r/d" -> {"r/d/g"} [] OTHER -> {}

\* walkdir yields a directory, then its contents depth first; the order of
\* the siblings is the file system's.  e can be the next entry when it is the
\* root, or a child of the deepest directory that still has entries to yield.
OpenDirs == {d \in visited : Below(d) \ visited # {}}
NextInWalk(e) ==
    /\ e \in DelEntries \ visited
    /\ IF visited = {} THEN e = DelRoot
       ELSE /\ DirOf(e) \in OpenDirs
            /\ \A d \in OpenDirs : Components(d) <= Components(DirOf(e))

\* dirs.sort_by_key(|b| Reverse(b.components().count())): a stable sort.
RECURSIVE InsertByDepth(_, _)
InsertByDepth(s, d) ==
    IF s = <<>> THEN <<d>>
    ELSE IF Components(Head(s)) >= Components(d)
         THEN <<Head(s)>> \o InsertByDepth(Tail(s), d)
         ELSE <<d>> \o s

\* the sort of lib.rs 504 left out: the directories stay in walk order
SortLeftOut(s) == s

RECURSIVE SortDeepestFirst(_)
SortDeepestFirst(s) ==
    IF s = <<>> THEN <<>>
    ELSE InsertByDepth(SortDeepestFirst(SubSeq(s, 1, Len(s) - 1)), s[Len(s)])

\* lib.rs 436-454: the counting pass.
total_count == Cardinality({e \in DelEntries : PassesFilters(e)})

\* Producer, lib.rs 472-502: one walk entry per step; a walk item that is an
\* Err is dropped (lib.rs 476), an entry whose metadata cannot be read is
\* passed over (lib.rs 489); a file is sent at once, a directory is buffered.
\* After the last entry the buffer is sorted (504).
DelProducerVisit(e) ==
    /\ engine = "delete"
    /\ ppc = "walk"
    /\ NextInWalk(e)
    /\ visited' = visited \cup {e}
    /\ pcur' = e
    /\ \E listed \in BOOLEAN :
         LET isFile == listed /\ PassesFilters(e) /\ ~IsDir(e)
             buf    == IF listed /\ PassesFilters(e) /\ IsDir(e)
                       THEN Append(dirs, e) ELSE dirs
         IN /\ unlisted' = IF listed THEN unlisted ELSE unlisted \cup {e}
            /\ queue' = IF isFile THEN Append(queue, [path |-> e, is_dir |-> FALSE])
                        ELSE queue
            /\ enq' = IF isFile THEN Append(enq, [path |-> e, is_dir |-> FALSE]) ELSE enq
            /\ pbLen' = IF isFile THEN pbLen + 1 ELSE pbLen
            /\ IF visited' = DelEntries
               THEN dirs' = SortDeepestFirst(buf) /\ ppc' = "dirs"
               ELSE dirs' = buf /\ ppc' = ppc
    /\ UNCHANGED <<argVars, cmpVars, unopened, wchunk, deq, backVars, sent_size, dstLinks, jobVars, senders, wpc, wjob, errors, mainpc, result, pbPos, copyVars,
                   tree, started, finished, injected, syncVars>>

\* lib.rs 505-510: send the sorted directories, one per step.
DelProducerSendDir ==
    /\ engine = "delete"
    /\ ppc = "dirs"
    /\ dirs # <<>>
    /\ queue' = Append(queue, [path |-> Head(dirs), is_dir |-> TRUE])
    /\ enq' = Append(enq, [path |-> Head(dirs), is_dir |-> TRUE])
    /\ dirs' = Tail(dirs)
    /\ pbLen' = pbLen + 1
    /\ UNCHANGED <<argVars, cmpVars, unopened, wchunk, deq, backVars, sent_size, dstLinks, jobVars, unlisted, senders, ppc, pcur, visited, wpc, wjob, errors, mainpc,
                   result, pbPos, copyVars, tree, started, finished, injected, syncVars>>

\* lib.rs 511: drop(tx_producer).
DelProducerDone ==
    /\ engine = "delete"
    /\ ppc = "dirs"
    /\ dirs = <<>>
    /\ ppc' = "done"
    /\ senders' = senders \ {"tx_producer"}
    /\ UNCHANGED <<argVars, cmpVars, unopened, wchunk, fifoVars, backVars, sent_size, dstLinks, jobVars, unlisted, queue, pcur, visited, wpc, wjob, errors, mainpc, result,
                   pbLen, pbPos, copyVars, delVars, syncVars>>

\* lib.rs 525-529: rx.recv() returns a job; a dry run prints and goes on.
DelRecv(w) ==
    /\ engine = "delete"
    /\ wpc[w] = "recv"
    /\ queue # <<>>
    /\ queue' = Tail(queue)
    /\ deq' = Append(deq, Head(queue))
    /\ IF dry_run
       THEN /\ handled' = [handled EXCEPT ![Head(queue).path] = @ + 1]
            /\ UNCHANGED <<wpc, wjob>>
       ELSE /\ wjob' = [wjob EXCEPT ![w] = Head(queue).path]
            /\ wpc' = [wpc EXCEPT ![w] = "delete"]
            /\ UNCHANGED handled
    /\ UNCHANGED <<argVars, cmpVars, unopened, wchunk, enq, backVars, sent_size, dstLinks, jobVars, unlisted, senders, ppc, pcur, visited, errors, mainpc, result, pbLen,
                   pbPos, dst, dstDirs, created_dirs, mutations, delVars, syncVars>>

\* LocalBackend::delete, backends/local.rs 76-77: Path::new(path).is_dir().
DelStart(w) ==
    /\ engine = "delete"
    /\ wpc[w] = "delete"
    /\ wpc' = [wpc EXCEPT ![w] =
                  IF wjob[w] \in tree /\ IsDir(wjob[w]) THEN "remove_dir_all"
                  ELSE "remove_file"]
    /\ started' = started \cup {wjob[w]}
    /\ UNCHANGED <<argVars, cmpVars, unopened, wchunk, fifoVars, backVars, sent_size, dstLinks, jobVars, unlisted, senders, queue, ppc, pcur, visited, wjob, errors, mainpc,
                   result, pbLen, pbPos, copyVars, tree, dirs, finished, injected, syncVars>>

\* what fs::remove_dir_all / fs::remove_file leave of the tree; fault is an
\* I/O fault of the call itself.  Removing what is not there is an error.
Removal(call, path, fault) ==
    IF fault \/ path \notin tree THEN [ok |-> FALSE, tree |-> tree]
    ELSE IF call = "remove_dir_all"
         THEN [ok |-> TRUE, tree |-> tree \ ({path} \cup Below(path))]
         ELSE IF IsDir(path) THEN [ok |-> FALSE, tree |-> tree]
              ELSE [ok |-> TRUE, tree |-> tree \ {path}]

\* backends/local.rs 78-82 and lib.rs 531-538: the removal, then pb.inc(1)
\* on Ok, errors.push(e) on Err.
DeleteOutcome(path, r) ==
    [tree |-> r.tree,
     errs |-> IF r.ok THEN <<>> ELSE <<IoError(path)>>,
     inc  |-> IF r.ok THEN 1 ELSE 0]

DelFinish(w) ==
    /\ engine = "delete"
    /\ wpc[w] \in {"remove_dir_all", "remove_file"}
    /\ \E fault \in BOOLEAN :
         LET o == DeleteOutcome(wjob[w], Removal(wpc[w], wjob[w], fault))
         IN /\ tree' = o.tree
            /\ errors' = errors \o o.errs
            /\ pbPos' = pbPos + o.inc
            /\ injected' = (injected \/ fault)
    /\ mutations' = mutations + 1
    /\ finished' = finished \cup {wjob[w]}
    /\ handled' = [handled EXCEPT ![wjob[w]] = @ + 1]
    /\ wpc' = [wpc EXCEPT ![w] = "recv"]
    /\ wjob' = [wjob EXCEPT ![w] = NoJob]
    /\ UNCHANGED <<argVars, cmpVars, unopened, wchunk, fifoVars, backVars, sent_size, dstLinks, jobVars, unlisted, senders, queue, ppc, pcur, visited, mainpc, result, pbLen,
                   dst, dstDirs, created_dirs, dirs, started, syncVars>>

DelIncludeChoices == {None, Some({"r/d", "r/d/g"})}
DelExcludeChoices == {None, Some({"r/d/g"})}

InitDelete ==
    /\ engine = "delete"
    /\ PipeInit
    /\ include \in DelIncludeChoices
    /\ exclude \in DelExcludeChoices
    /\ both_local = TRUE
    /\ no_preserve_times = FALSE
    /\ pbLen = total_count
    /\ dst = [p \in CopyFiles |-> Absent]
    /\ dstDirs = {}
    /\ dstLinks = {}
    /\ created_dirs = [w \in Workers |-> {}]
    /\ handled = [e \in DelEntries |-> 0]
    /\ mutations = 0
    /\ tree = DelEntries
    /\ dirs = <<>>
    /\ started = {}
    /\ finished = {}
    /\ injected = FALSE
    /\ SyncIdle
    /\ JobIdle
    /\ BackIdle
    /\ FifoIdle
    /\ CmpIdle
    /\ wchunk = [w \in Workers |-> NoChunk]
    /\ unopened = {}
    /\ before = [dst |-> dst, dirs |-> dstDirs, tree |-> tree]

NextDelete ==
    \/ \E e \in DelEntries : DelProducerVisit(e)
    \/ DelProducerSendDir
    \/ DelProducerDone
    \/ SpawnWorkers
    \/ \E w \in Workers : DelRecv(w)
    \/ \E w \in Workers : DelStart(w)
    \/ \E w \in Workers : DelFinish(w)
    \/ \E w \in Workers : WorkerExit(w)
    \/ JoinProducer
    \/ JoinWorkers

SpecDelete == InitDelete /\ [][NextDelete]_vars

\* copy and delete, the two worker-pool engines of lib.rs.
InitPool == InitCopy \/ InitDelete
NextPool == NextCopy \/ NextDelete
SpecPool == InitPool /\ [][NextPool]_vars

(***************************************************************************)
(* sync_dir_chunked, sync.rs 44-297.  Sizes are in bytes; the source tree  *)
(* is big.bin (at the large-file threshold or above) and sub/s.txt (below).*)
(***************************************************************************)
\* sync.rs 22, in the model's unit: the model's files are a few bytes long.
LARGE_FILE_THRESHOLD == 4

SyncFiles == {"big.bin", "sub/s.txt"}
\* mid.bin is a file of exactly LARGE_FILE_THRESHOLD bytes
SyncSrcData(p) ==
    CASE p = "big.bin" -> <<0, 2, 0, 1, 1, 1>>
      [] p = "mid.bin" -> <<4, 4, 4, 4>>
      [] OTHER -> <<5>>
SyncSrc(p) == File(SyncSrcData(p), "t_src")
SyncDirs == {".", "sub"}

\* adler::Adler32 over a byte slice: write_slice, then checksum().
RECURSIVE AdlerFold(_, _, _)
AdlerFold(bytes, a, b) ==
    IF bytes = <<>> THEN b * 65536 + a
    ELSE LET a2 == (a + Head(bytes)) % 65521
         IN AdlerFold(Tail(bytes), a2, (b + a2) % 65521)
Adler32(bytes) == AdlerFold(bytes, 1, 0)

\* the bytes a read of len bytes at offset off returns
Slice(s, off, len) ==
    IF off >= Len(s) THEN <<>> ELSE SubSeq(s, off + 1, Min(off + len, Len(s)))

\* seek(Start(off)) then write_all(buf): a hole before off reads as zeros,
\* the bytes after the written range stay.
WriteAt(data, off, buf) ==
    LET padded == IF Len(data) < off
                  THEN data \o [i \in 1..(off - Len(data)) |-> 0] ELSE data
    IN SubSeq(padded, 1, off) \o buf \o SubSeq(padded, off + Len(buf) + 1, Len(padded))

\* write_chunk without its seek: the bytes land at the start of the file
write_chunk_no_seek(d, offset, buf, ok) ==
    IF ~d.exists \/ ~ok THEN [file |-> d, ok |-> FALSE]
    ELSE [file |-> File(WriteAt(d.data, 0, buf), "t_now"), ok |-> TRUE]

\* write_chunk, sync.rs 292-297: open for write (no create), seek, write_all.
write_chunk(d, offset, buf, ok) ==
    IF ~d.exists \/ ~ok THEN [file |-> d, ok |-> FALSE]
    ELSE [file |-> File(WriteAt(d.data, offset, buf), "t_now"), ok |-> TRUE]

\* sync.rs 166-182: the chunk jobs of one file.
DivCeil(a, b) == (a + b - 1) \div b

\* file.size / chunk_size in place of div_ceil: the remainder gets no job
ChunkJobsFloor(p, size, c) ==
    [i \in 1..(size \div c) |->
        LET offset == (i - 1) * c
        IN [path |-> p, chunk_index |-> i - 1, offset |-> offset,
            size |-> IF offset + c > size THEN size - offset ELSE c]]

\* every chunk after the first starting one byte early
ChunkJobsOverlapping(p, size, c) ==
    [i \in 1..DivCeil(size, c) |->
        LET offset == IF i = 1 THEN 0 ELSE (i - 1) * c - 1
        IN [path |-> p, chunk_index |-> i - 1, offset |-> offset,
            size |-> IF offset + c > size THEN size - offset ELSE c]]

ChunkJobs(p, size, c) ==
    [i \in 1..DivCeil(size, c) |->
        LET offset == (i - 1) * c
        IN [path |-> p, chunk_index |-> i - 1, offset |-> offset,
            size |-> IF offset + c > size THEN size - offset ELSE c]]

Item(p, i) == [path |-> p, chunk |-> i]
\* the sum of what a step sends on the progress channel (at most one number)
Sum(s) == IF s = <<>> THEN 0 ELSE s[1]
WholeFile == 0 - 1

\* sync.rs 111-183: what the producer does with one file.  f holds the
\* outcome of its calls: src_meta (metadata of the source Ok), copy (fs::copy
\* Ok).  metadata of the destination is Ok exactly when the file exists.
ProducerFaults == [src_meta : BOOLEAN, copy : BOOLEAN]

\* the mtime comparison of sync.rs 125 inverted
SkipMtimeInverted(src, d, dst_meta) ==
    /\ dst_meta
    /\ Len(src.data) = Len(d.data)
    /\ src.mtime # d.mtime

\* sync.rs 119-143: the metadata shortcut.
Skip(src, d, dst_meta) ==
    /\ dst_meta
    /\ Len(src.data) = Len(d.data)
    /\ src.mtime = d.mtime

\* the test of sync.rs 152 as size <= LARGE_FILE_THRESHOLD
SyncFileOutcomeExceeds(p, size, d, c, f) ==
    LET src      == SyncSrc(p)
        dst_meta == d.exists
        same     == [file |-> d, done |-> <<>>, jobs |-> <<>>, ops |-> {}, failed |-> {},
                     route |-> "unreadable"]
    IN IF ~f.src_meta THEN same
       ELSE IF Skip(src, d, dst_meta)
            THEN [same EXCEPT !.done = <<size>>, !.route = "skip"]
       ELSE IF ~dst_meta \/ size <= LARGE_FILE_THRESHOLD
            THEN IF f.copy
                 THEN [same EXCEPT !.file = File(src.data, "t_now"),
                                   !.done = <<Len(src.data)>>,
                                   !.ops = {<<p, "truncate">>, <<p, "write">>},
                                   !.route = "copy"]
                 ELSE [same EXCEPT !.done = <<0>>, !.failed = {Item(p, WholeFile)},
                                   !.route = "copy"]
            ELSE [same EXCEPT !.jobs = ChunkJobs(p, size, c), !.route = "chunks"]

SyncFileOutcome(p, size, d, c, f) ==
    LET src      == SyncSrc(p)
        dst_meta == d.exists
        same     == [file |-> d, done |-> <<>>, jobs |-> <<>>, ops |-> {}, failed |-> {},
                     route |-> "unreadable"]
    IN IF ~f.src_meta THEN same
       ELSE IF Skip(src, d, dst_meta)
            THEN [same EXCEPT !.done = <<size>>, !.route = "skip"]
       ELSE IF ~dst_meta \/ size < LARGE_FILE_THRESHOLD
            THEN IF f.copy
                 THEN [same EXCEPT !.file = File(src.data, "t_now"),
                                   !.done = <<Len(src.data)>>,
                                   !.ops = {<<p, "truncate">>, <<p, "write">>},
                                   !.route = "copy"]
                 ELSE [same EXCEPT !.done = <<0>>, !.failed = {Item(p, WholeFile)},
                                   !.route = "copy"]
            ELSE [same EXCEPT !.jobs = ChunkJobs(p, size, c), !.route = "chunks"]

\* sync.rs 197-262: what a worker does with one chunk job.  f holds the
\* outcome of its calls: open_src, read_src, open_dst, seek_dst, read_dst
\* (a failed read of the destination counts as 0 bytes read, sync.rs 247),
\* write.
ChunkFaults == [open_src : BOOLEAN, read_src : BOOLEAN, open_dst : BOOLEAN,
                seek_dst : BOOLEAN, read_dst : BOOLEAN, write : BOOLEAN]

\* the comparison of sync.rs 254 left out: every chunk that was read is written
ChunkOutcomeAlwaysWrite(job, d, f) ==
    LET p       == job.path
        src_buf == Slice(SyncSrcData(p), job.offset, job.size)
        n       == Len(src_buf)
        same    == [file |-> d, done |-> <<0>>, ops |-> {}, failed |-> {}, written |-> {},
                    fault |-> FALSE]
        wc      == write_chunk(d, job.offset, src_buf, f.write)
        put_it  == [file |-> wc.file, done |-> <<n>>,
                    ops |-> IF wc.ok THEN {<<p, "write">>} ELSE {},
                    failed |-> IF wc.ok THEN {} ELSE {Item(p, job.chunk_index)},
                    written |-> IF wc.ok THEN {Item(p, job.chunk_index)} ELSE {},
                    fault |-> ~wc.ok]
    IN IF ~f.open_src \/ ~f.read_src THEN [same EXCEPT !.fault = TRUE]
       ELSE IF n = 0 THEN same
       ELSE IF ~d.exists \/ ~f.open_dst \/ ~f.seek_dst
            THEN [put_it EXCEPT !.fault = TRUE]
       ELSE [put_it EXCEPT !.ops = @ \cup {<<p, "read">>}, !.fault = @ \/ ~f.read_dst]

ChunkOutcome(job, d, f) ==
    LET p       == job.path
        src_buf == Slice(SyncSrcData(p), job.offset, job.size)
        n       == Len(src_buf)
        same    == [file |-> d, done |-> <<0>>, ops |-> {}, failed |-> {}, written |-> {},
                    fault |-> FALSE]
        wc      == write_chunk(d, job.offset, src_buf, f.write)
        put_it  == [file |-> wc.file, done |-> <<n>>,
                    ops |-> IF wc.ok THEN {<<p, "write">>} ELSE {},
                    failed |-> IF wc.ok THEN {} ELSE {Item(p, job.chunk_index)},
                    written |-> IF wc.ok THEN {Item(p, job.chunk_index)} ELSE {},
                    fault |-> ~wc.ok]
    IN IF ~f.open_src \/ ~f.read_src THEN [same EXCEPT !.fault = TRUE]
       ELSE IF n = 0 THEN same
       ELSE IF ~d.exists \/ ~f.open_dst \/ ~f.seek_dst
            THEN [put_it EXCEPT !.fault = TRUE]
       ELSE LET dst_buf == IF f.read_dst THEN Slice(d.data, job.offset, n) ELSE <<>>
                m       == Len(dst_buf)
            IN IF n # m \/ Adler32(src_buf) # Adler32(dst_buf)
               THEN [put_it EXCEPT !.ops = @ \cup {<<p, "read">>},
                                   !.fault = @ \/ ~f.read_dst]
               ELSE [same EXCEPT !.done = <<n>>, !.ops = {<<p, "read">>}]

\* sync.rs 55-98: the first pass (walk, create the destination directories,
\* collect the files and their total size), then sync.rs 100-280: the
\* channels and the producer, worker and progress threads.
SyncOrders == {<<"big.bin", "sub/s.txt">>, <<"sub/s.txt", "big.bin">>}
SyncTotal == Len(SyncSrcData("big.bin")) + Len(SyncSrcData("sub/s.txt"))
ErrOther == [kind |-> "Other", count |-> 0]

SyncDiscover ==
    /\ engine = "sync"
    /\ mainpc = "discover"
    /\ \E walk_ok \in BOOLEAN, mkdir_ok \in BOOLEAN, order \in SyncOrders :
         IF ~walk_ok \/ (dstDirs # SyncDirs /\ ~mkdir_ok)
         THEN /\ mainpc' = "returned"
              /\ result' = ErrOther
              /\ unlisted' = IF walk_ok THEN unlisted ELSE {order[1]}
              /\ UNCHANGED <<dstDirs, files, pbLen, ppc, wpc, pbt, senders, done_senders>>
         ELSE /\ unlisted' = unlisted
              /\ dstDirs' = SyncDirs
              /\ files' = [i \in 1..Len(order) |->
                              [path |-> order[i], size |-> Len(SyncSrcData(order[i]))]]
              /\ pbLen' = SyncTotal
              /\ senders' = {"job_tx", "producer_job_tx"}
              /\ done_senders' = {<<"done_tx", 0>>, <<"producer_done_tx", 0>>}
                                   \cup {<<"worker_done_tx", w>> : w \in 1..threads}
              /\ ppc' = "walk"
              /\ wpc' = [w \in Workers |-> IF w <= threads THEN "recv" ELSE "none"]
              /\ pbt' = "run"
              /\ mainpc' = "join_producer"
              /\ UNCHANGED result
    /\ UNCHANGED <<argVars, cmpVars, unopened, wchunk, fifoVars, backVars, sent_size, dstLinks, jobVars, queue, pcur, visited, wjob, errors, pbPos, dst, created_dirs,
                   handled, mutations, delVars, chunk_size, done_q, dstOps, failed,
                   written, route, reported>>

\* sync.rs 111-183: one file of the producer's loop.
SyncProducer ==
    /\ engine \in {"sync", "dispatch"}
    /\ ppc = "walk"
    /\ files # <<>>
    /\ LET file == Head(files)
       IN \E o \in {SyncFileOutcome(file.path, file.size, dst[file.path], chunk_size, f) :
                       f \in ProducerFaults} :
               /\ dst' = [dst EXCEPT ![file.path] = o.file]
               /\ done_q' = done_q \o o.done
               /\ queue' = queue \o o.jobs
               /\ dstOps' = dstOps \cup o.ops
               /\ failed' = failed \cup o.failed
               /\ route' = [route EXCEPT ![file.path] = o.route]
               /\ reported' = [reported EXCEPT ![file.path] = @ + Sum(o.done)]
               /\ visited' = visited \cup {file.path}
    /\ files' = Tail(files)
    /\ UNCHANGED <<argVars, cmpVars, unopened, wchunk, fifoVars, backVars, sent_size, dstLinks, jobVars, unlisted, senders, ppc, pcur, wpc, wjob, errors, mainpc, result, pbLen,
                   pbPos, dstDirs, created_dirs, handled, mutations, delVars, chunk_size,
                   done_senders, pbt, written>>

\* sync.rs 184-186: drop(job_tx); drop(producer_done_tx).
SyncProducerDone ==
    /\ engine \in {"sync", "dispatch"}
    /\ ppc = "walk"
    /\ files = <<>>
    /\ ppc' = "done"
    /\ senders' = senders \ {"producer_job_tx"}
    /\ done_senders' = done_senders \ {<<"producer_done_tx", 0>>}
    /\ UNCHANGED <<argVars, cmpVars, unopened, wchunk, fifoVars, backVars, sent_size, dstLinks, jobVars, unlisted, queue, pcur, visited, wpc, wjob, errors, mainpc, result,
                   pbLen, pbPos, copyVars, delVars, chunk_size, files, done_q, pbt,
                   dstOps, failed, written, route, reported>>

\* whether the handler of the job reaches a write_chunk call (sync.rs 237,
\* 244, 257) when the destination is d and its earlier calls end as f says
NeedsWrite(job, d, f) ==
    LET o == ChunkOutcome(job, d, f) IN o.written # {} \/ o.failed # {}

\* sync.rs 196-262: one step of `for job in job_rx.iter()`: a job is taken
\* and handled up to its write_chunk call (the chunk is read from source and
\* destination and compared), or the channel is empty and disconnected and
\* the worker ends, dropping its worker_done_tx.  A job that needs no write
\* is finished in this step.
SyncWorker(w) ==
    /\ engine = "sync"
    /\ wpc[w] = "recv"
    /\ IF queue # <<>>
       THEN /\ LET job == Head(queue)
                   d   == dst[job.path]
               IN \E f \in ChunkFaults :
                    LET o == ChunkOutcome(job, d, f)
                    IN IF NeedsWrite(job, d, f)
                       THEN /\ wchunk' = [wchunk EXCEPT ![w] = job]
                            /\ wpc' = [wpc EXCEPT ![w] = "write"]
                            /\ dstOps' = dstOps \cup (o.ops \cap {<<job.path, "read">>})
                            /\ unopened' = IF f.open_src /\ f.read_src /\ ~f.open_dst
                                           THEN unopened \cup {Item(job.path, job.chunk_index)}
                                           ELSE unopened
                            /\ injected' = (injected \/ ~f.open_dst \/ ~f.seek_dst \/ ~f.read_dst)
                            /\ UNCHANGED <<dst, done_q, failed, written, reported, handled>>
                       ELSE /\ dst' = [dst EXCEPT ![job.path] = o.file]
                            /\ done_q' = done_q \o o.done
                            /\ dstOps' = dstOps \cup o.ops
                            /\ failed' = failed \cup o.failed
                            /\ written' = written \cup o.written
                            /\ reported' = [reported EXCEPT ![job.path] = @ + Sum(o.done)]
                            /\ injected' = (injected \/ o.fault)
                            /\ handled' = handled \cup {Item(job.path, job.chunk_index)}
                            /\ UNCHANGED <<wpc, wchunk, unopened>>
            /\ queue' = Tail(queue)
            /\ UNCHANGED done_senders
       ELSE /\ senders = {}
            /\ wpc' = [wpc EXCEPT ![w] = "exit"]
            /\ done_senders' = done_senders \ {<<"worker_done_tx", w>>}
            /\ UNCHANGED <<dst, done_q, dstOps, failed, written, handled, queue, reported,
                           injected, wchunk, unopened>>
    /\ UNCHANGED <<argVars, cmpVars, fifoVars, backVars, sent_size, dstLinks, jobVars, unlisted, senders, ppc, pcur, visited, wjob, errors, mainpc, result,
                   pbLen, pbPos, dstDirs, created_dirs, mutations, tree, dirs, started,
                   finished, chunk_size, files, pbt, route>>

\* sync.rs 237-238, 244-245, 257-258: write_chunk of the source bytes read,
\* on the destination as it is now, then send n on the progress channel.
SyncWorkerWrite(w) ==
    /\ engine = "sync"
    /\ wpc[w] = "write"
    /\ LET job     == wchunk[w]
           p       == job.path
           src_buf == Slice(SyncSrcData(p), job.offset, job.size)
       IN \E ok \in BOOLEAN :
            LET wc == write_chunk(dst[p], job.offset, src_buf, ok)
            IN /\ dst' = [dst EXCEPT ![p] = wc.file]
               /\ done_q' = Append(done_q, Len(src_buf))
               /\ dstOps' = dstOps \cup (IF wc.ok THEN {<<p, "write">>} ELSE {})
               /\ failed' = failed \cup (IF wc.ok THEN {} ELSE {Item(p, job.chunk_index)})
               /\ written' = written \cup (IF wc.ok THEN {Item(p, job.chunk_index)} ELSE {})
               /\ reported' = [reported EXCEPT ![p] = @ + Len(src_buf)]
               /\ injected' = (injected \/ ~wc.ok)
               /\ handled' = handled \cup {Item(p, job.chunk_index)}
    /\ wpc' = [wpc EXCEPT ![w] = "recv"]
    /\ wchunk' = [wchunk EXCEPT ![w] = NoChunk]
    /\ UNCHANGED <<argVars, cmpVars, unopened, fifoVars, backVars, sent_size, dstLinks, jobVars, unlisted, senders, queue, ppc, pcur, visited, wjob, errors, mainpc, result,
                   pbLen, pbPos, dstDirs, created_dirs, mutations, tree, dirs, started,
                   finished, chunk_size, files, pbt, route, done_senders>>

\* sync.rs 270-279: one step of `for n in done_rx.iter()`: pb.inc(n), or the
\* channel is empty and disconnected and the thread finishes the bar.
SyncProgress ==
    /\ engine = "sync"
    /\ pbt = "run"
    /\ IF done_q # <<>>
       THEN /\ pbPos' = pbPos + Head(done_q)
            /\ done_q' = Tail(done_q)
            /\ UNCHANGED pbt
       ELSE /\ done_senders = {}
            /\ pbt' = "exit"
            /\ UNCHANGED <<pbPos, done_q>>
    /\ UNCHANGED <<argVars, cmpVars, unopened, wchunk, fifoVars, backVars, sent_size, dstLinks, jobVars, unlisted, senders, queue, ppc, pcur, visited, wpc, wjob, errors, mainpc,
                   result, pbLen, copyVars, delVars, chunk_size, files, done_senders,
                   dstOps, failed, written, route, reported>>

\* sync.rs 283-289: producer.join(), every w.join(), pb_thread.join(), Ok(()).
\* job_tx and done_tx of the calling thread are still in scope here.
SyncJoin ==
    /\ engine = "sync"
    /\ mainpc \in {"join_producer", "join_workers", "join_pb"}
    /\ CASE mainpc = "join_producer" ->
              /\ ppc = "done"
              /\ mainpc' = "join_workers"
              /\ UNCHANGED result
         [] mainpc = "join_workers" ->
              /\ \A w \in Workers : wpc[w] \in {"exit", "none"}
              /\ mainpc' = "join_pb"
              /\ UNCHANGED result
         [] OTHER ->
              /\ pbt = "exit"
              /\ mainpc' = "returned"
              /\ result' = [kind |-> "Ok", count |-> 0]
    /\ UNCHANGED <<argVars, cmpVars, unopened, wchunk, fifoVars, backVars, sent_size, dstLinks, jobVars, unlisted, senders, queue, ppc, pcur, visited, wpc, wjob, errors, pbLen,
                   pbPos, copyVars, delVars, syncVars>>

ChunkSizes == {3, 4}
BigDstChoices ==
    {Absent,
     File(<<0, 2, 0, 1, 1, 1>>, "t_src"),
     File(<<9, 9, 9, 9, 9, 9>>, "t_src"),
     File(<<0, 2, 0, 1, 1, 2>>, "t_old"),
     File(<<1, 0, 1, 1, 1, 1>>, "t_old"),
     File(<<0, 2, 0, 1>>, "t_old"),
     File(<<0>>, "t_old"),
     File(<<0, 2, 0, 1, 1, 1, 5>>, "t_old")}
SmallDstChoices ==
    {Absent, File(<<5>>, "t_src"), File(<<6>>, "t_src"), File(<<6>>, "t_old")}

InitSync ==
    /\ engine = "sync"
    /\ \E n \in 1..MaxThreads : threads = Max(n, 2)    \* num_cpus::get().max(2)
    /\ dry_run = FALSE
    /\ include = None
    /\ exclude = None
    /\ both_local = TRUE
    /\ no_preserve_times = FALSE
    /\ senders = {}
    /\ queue = <<>>
    /\ ppc = "none"
    /\ pcur = NoJob
    /\ visited = {}
    /\ unlisted = {}
    /\ sent_size = 0
    /\ wpc = [w \in Workers |-> "none"]
    /\ wjob = [w \in Workers |-> NoJob]
    /\ errors = <<>>
    /\ mainpc = "discover"
    /\ result = NoResult
    /\ pbLen = 0
    /\ pbPos = 0
    /\ \E big \in BigDstChoices, small \in SmallDstChoices :
         dst = [p \in SyncFiles |-> IF p = "big.bin" THEN big ELSE small]
    /\ dstDirs = (IF dst["big.bin"].exists \/ dst["sub/s.txt"].exists THEN {"."} ELSE {})
                   \cup (IF dst["sub/s.txt"].exists THEN {"sub"} ELSE {})
    /\ created_dirs = [w \in Workers |-> {}]
    /\ handled = {}
    /\ mutations = 0
    /\ dstLinks = {}
    /\ DeleteIdle
    /\ JobIdle
    /\ chunk_size \in ChunkSizes
    /\ files = <<>>
    /\ done_senders = {}
    /\ done_q = <<>>
    /\ pbt = "none"
    /\ dstOps = {}
    /\ failed = {}
    /\ written = {}
    /\ route = [p \in SyncFiles |-> "none"]
    /\ reported = [p \in SyncFiles |-> 0]
    /\ BackIdle
    /\ FifoIdle
    /\ CmpIdle
    /\ wchunk = [w \in Workers |-> NoChunk]
    /\ unopened = {}
    /\ before = [dst |-> dst, dirs |-> dstDirs, tree |-> tree]

NextSync ==
    \/ SyncDiscover
    \/ SyncProducer
    \/ SyncProducerDone
    \/ \E w \in Workers : SyncWorker(w)
    \/ \E w \in Workers : SyncWorkerWrite(w)
    \/ SyncProgress
    \/ SyncJoin

SpecSync == InitSync /\ [][NextSync]_vars

(***************************************************************************)
(* The producer of sync_dir_chunked, sync.rs 111-186, on a source tree of  *)
(* one file: big.bin (above the threshold), mid.bin (exactly at it) or     *)
(* sub/s.txt (below it).                                                   *)
(***************************************************************************)
DispatchFiles == {"big.bin", "mid.bin", "sub/s.txt"}
MidDstChoices ==
    {Absent, File(<<4, 4, 4, 4>>, "t_src"), File(<<4, 4, 4, 5>>, "t_old"),
     File(<<4, 4>>, "t_old")}
DstChoicesOf(p) ==
    CASE p = "big.bin" -> BigDstChoices
      [] p = "mid.bin" -> MidDstChoices
      [] OTHER -> SmallDstChoices

InitDispatch ==
    /\ engine = "dispatch"
    /\ threads = 2
    /\ dry_run = FALSE
    /\ include = None
    /\ exclude = None
    /\ both_local = TRUE
    /\ no_preserve_times = FALSE
    /\ senders = {"job_tx", "producer_job_tx"}
    /\ queue = <<>>
    /\ ppc = "walk"
    /\ pcur = NoJob
    /\ visited = {}
    /\ unlisted = {}
    /\ sent_size = 0
    /\ wpc = [w \in Workers |-> "none"]
    /\ wjob = [w \in Workers |-> NoJob]
    /\ errors = <<>>
    /\ mainpc = "join_producer"
    /\ result = NoResult
    /\ pbPos = 0
    /\ \E p \in DispatchFiles :
         /\ files = <<[path |-> p, size |-> Len(SyncSrcData(p))]>>
         /\ pbLen = Len(SyncSrcData(p))
         /\ \E d \in DstChoicesOf(p) :
              dst = [q \in DispatchFiles |-> IF q = p THEN d ELSE Absent]
    /\ dstDirs = SyncDirs
    /\ created_dirs = [w \in Workers |-> {}]
    /\ handled = {}
    /\ mutations = 0
    /\ dstLinks = {}
    /\ DeleteIdle
    /\ JobIdle
    /\ chunk_size \in 1..MaxChunkSize
    /\ done_senders = {<<"done_tx", 0>>, <<"producer_done_tx", 0>>}
    /\ done_q = <<>>
    /\ pbt = "none"
    /\ dstOps = {}
    /\ failed = {}
    /\ written = {}
    /\ route = [p \in DispatchFiles |-> "none"]
    /\ reported = [p \in DispatchFiles |-> 0]
    /\ BackIdle
    /\ FifoIdle
    /\ CmpIdle
    /\ wchunk = [w \in Workers |-> NoChunk]
    /\ unopened = {}
    /\ before = [dst |-> dst, dirs |-> dstDirs, tree |-> tree]

NextDispatch ==
    \/ SyncProducer
    \/ SyncProducerDone

SpecDispatch == InitDispatch /\ [][NextDispatch]_vars

(***************************************************************************)
(* The chunk job generation of sync_dir_chunked, sync.rs 165-182, for one   *)
(* file of any size and any chunk size: the for loop, one job per step.    *)
(***************************************************************************)
ChunkFrame ==
    UNCHANGED <<argVars, cmpVars, senders, pcur, sent_size, visited, unlisted, wpc, wjob, errors,
                mainpc, result, pbLen, pbPos, copyVars, dstLinks, delVars, chunk_size,
                files, done_senders, done_q, pbt, dstOps, failed, written, route, reported,
                jobVars, backVars, fifoVars, wchunk, unopened>>

\* sync.rs 167-181: one iteration of `for chunk_index in 0..num_chunks`.
ChunkEnqueue ==
    /\ engine = "chunks"
    /\ ppc = "walk"
    /\ LET file == Head(files)
           jobs == ChunkJobs(file.path, file.size, chunk_size)
       IN /\ Len(queue) < Len(jobs)
          /\ queue' = Append(queue, jobs[Len(queue) + 1])
    /\ UNCHANGED ppc
    /\ ChunkFrame

\* sync.rs 182: chunk_index has reached num_chunks.
ChunkLoopEnd ==
    /\ engine = "chunks"
    /\ ppc = "walk"
    /\ LET file == Head(files)
       IN Len(queue) = Len(ChunkJobs(file.path, file.size, chunk_size))
    /\ ppc' = "done"
    /\ UNCHANGED queue
    /\ ChunkFrame

InitChunks ==
    /\ engine = "chunks"
    /\ threads = 0
    /\ dry_run = FALSE
    /\ include = None
    /\ exclude = None
    /\ both_local = TRUE
    /\ no_preserve_times = FALSE
    /\ senders = {"producer_job_tx"}
    /\ queue = <<>>
    /\ ppc = "walk"
    /\ pcur = NoJob
    /\ visited = {}
    /\ unlisted = {}
    /\ sent_size = 0
    /\ wpc = [w \in Workers |-> "none"]
    /\ wjob = [w \in Workers |-> NoJob]
    /\ errors = <<>>
    /\ mainpc = "join_producer"
    /\ result = NoResult
    /\ pbLen = 0
    /\ pbPos = 0
    /\ dst = [p \in CopyFiles |-> Absent]
    /\ dstDirs = {}
    /\ dstLinks = {}
    /\ created_dirs = [w \in Workers |-> {}]
    /\ handled = {}
    /\ mutations = 0
    /\ DeleteIdle
    /\ JobIdle
    /\ chunk_size \in 1..MaxChunkSize
    /\ \E size \in 1..MaxFileSize : files = <<[path |-> "big.bin", size |-> size]>>
    /\ done_senders = {}
    /\ done_q = <<>>
    /\ pbt = "none"
    /\ dstOps = {}
    /\ failed = {}
    /\ written = {}
    /\ route = [p \in SyncFiles |-> "none"]
    /\ reported = [p \in SyncFiles |-> 0]
    /\ BackIdle
    /\ FifoIdle
    /\ CmpIdle
    /\ wchunk = [w \in Workers |-> NoChunk]
    /\ unopened = {}
    /\ before = [dst |-> dst, dirs |-> dstDirs, tree |-> tree]

NextChunks ==
    \/ ChunkEnqueue
    \/ ChunkLoopEnd

SpecChunks == InitChunks /\ [][NextChunks]_vars

(***************************************************************************)
(* LocalBackend called directly, backends/local.rs 61-87, on the paths of  *)
(* the destination tree.  dstDirs holds the directories that exist.        *)
(***************************************************************************)
\* the byte sequences handed to put
PutData == {<<>>, <<5>>, <<5, 6>>}
BackendDirs == {"dir"}

\* LocalBackend::get, local.rs 61-66: File::open, then read_to_end.
GetFaults == [open : BOOLEAN, read : BOOLEAN]

\* read_to_end stopping after the first byte
get_one_byte(d, f) ==
    IF ~d.exists \/ ~f.open \/ ~f.read THEN [ok |-> FALSE, data |-> <<>>]
    ELSE [ok |-> TRUE, data |-> Prefix(d.data, 1)]

get(d, f) ==
    IF ~d.exists \/ ~f.open \/ ~f.read THEN [ok |-> FALSE, data |-> <<>>]
    ELSE [ok |-> TRUE, data |-> d.data]

\* LocalBackend::exists, local.rs 84-86: Path::exists.
exists(path) ==
    IF path \in CopyFiles THEN dst[path].exists ELSE path \in dstDirs

BackendFrame ==
    UNCHANGED <<argVars, cmpVars, pipeVars, dstLinks, created_dirs, handled, mutations, delVars,
                syncVars, jobVars, fifoVars, wchunk, unopened>>

\* local.rs 68-72.  File::create fails when the parent directory of path
\* does not exist: put makes no directory.
BackendPut(path, data) ==
    /\ engine = "backend"
    /\ \E f \in PutFaults(Len(data)) :
         LET parent_ok == DirChain(Parent(path)) \subseteq dstDirs
             r == put(dst[path], data, [f EXCEPT !.create = f.create /\ parent_ok])
         IN /\ dst' = [dst EXCEPT ![path] = r.file]
            /\ ret' = [op |-> "put", path |-> path, ok |-> r.ok, data |-> data,
                       found |-> FALSE,
                       faulted |-> ~f.create \/ f.written < Len(data)]
            /\ put_data' = [put_data EXCEPT ![path] =
                               IF r.ok THEN [some |-> TRUE, data |-> data] ELSE NoPut]
    /\ UNCHANGED dstDirs
    /\ BackendFrame

\* local.rs 61-66
BackendGet(path) ==
    /\ engine = "backend"
    /\ \E f \in GetFaults :
         LET r == get(dst[path], f)
         IN ret' = [op |-> "get", path |-> path, ok |-> r.ok, data |-> r.data,
                    found |-> FALSE, faulted |-> ~f.open \/ ~f.read]
    /\ UNCHANGED <<dst, dstDirs, put_data>>
    /\ BackendFrame

\* local.rs 84-86
BackendExists(path) ==
    /\ engine = "backend"
    /\ ret' = [op |-> "exists", path |-> path, ok |-> TRUE, data |-> <<>>,
               found |-> exists(path), faulted |-> FALSE]
    /\ UNCHANGED <<dst, dstDirs, put_data>>
    /\ BackendFrame

\* local.rs 76-83: remove_dir_all for a directory, remove_file otherwise.
\* A remove_dir_all that fails may already have removed the files below.
BackendDelete(path) ==
    /\ engine = "backend"
    /\ \E ok \in BOOLEAN, partial \in BOOLEAN :
         LET is_dir == path \in BackendDirs /\ path \in dstDirs
             below  == {p \in CopyFiles : Parent(p) = path}
             done   == ok /\ exists(path)
         IN /\ IF is_dir
               THEN /\ dst' = [p \in CopyFiles |->
                                  IF p \in below /\ (done \/ partial) THEN Absent ELSE dst[p]]
                    /\ dstDirs' = IF done THEN dstDirs \ {path} ELSE dstDirs
                    /\ put_data' = [p \in CopyFiles |-> IF p \in below THEN NoPut ELSE put_data[p]]
               ELSE /\ dst' = IF done /\ path \in CopyFiles
                              THEN [dst EXCEPT ![path] = Absent] ELSE dst
                    /\ dstDirs' = dstDirs
                    /\ put_data' = IF path \in CopyFiles
                                   THEN [put_data EXCEPT ![path] = NoPut] ELSE put_data
            /\ ret' = [op |-> "delete", path |-> path, ok |-> done, data |-> <<>>,
                       found |-> FALSE, faulted |-> ~ok]
    /\ BackendFrame

InitBackend ==
    /\ engine = "backend"
    /\ threads = 0
    /\ dry_run = FALSE
    /\ include = None
    /\ exclude = None
    /\ both_local = FALSE
    /\ no_preserve_times = FALSE
    /\ senders = {}
    /\ queue = <<>>
    /\ ppc = "done"
    /\ pcur = NoJob
    /\ visited = {}
    /\ unlisted = {}
    /\ sent_size = 0
    /\ wpc = [w \in Workers |-> "none"]
    /\ wjob = [w \in Workers |-> NoJob]
    /\ errors = <<>>
    /\ mainpc = "none"
    /\ result = NoResult
    /\ pbLen = 0
    /\ pbPos = 0
    /\ dst \in DstChoices
    /\ dstDirs \in {{}, {"."}, {".", "dir"}}
    /\ dst["a.txt"].exists => "." \in dstDirs
    /\ dstLinks = {}
    /\ created_dirs = [w \in Workers |-> {}]
    /\ handled = [p \in CopyFiles |-> 0]
    /\ mutations = 0
    /\ DeleteIdle
    /\ SyncIdle
    /\ JobIdle
    /\ BackIdle
    /\ FifoIdle
    /\ CmpIdle
    /\ wchunk = [w \in Workers |-> NoChunk]
    /\ unopened = {}
    /\ before = [dst |-> dst, dirs |-> dstDirs, tree |-> tree]

NextBackend ==
    \/ \E path \in CopyFiles, data \in PutData : BackendPut(path, data)
    \/ \E path \in CopyFiles : BackendGet(path)
    \/ \E path \in CopyFiles \cup BackendDirs : BackendExists(path)
    \/ \E path \in CopyFiles \cup BackendDirs : BackendDelete(path)

SpecBackend == InitBackend /\ [][NextBackend]_vars

(***************************************************************************)
(* fast_copy called once by a copy worker, lib.rs 188-199 and 321-397, on  *)
(* an empty or a two-byte source file.  wjob[1] is the job's path and      *)
(* sent_size the size the producer put into the job: the file's length, or *)
(* 0 when entry.metadata() failed (lib.rs 93).                             *)
(***************************************************************************)
FcFiles == {"e.txt", "a.txt"}
FcSrcData(p) == IF p = "e.txt" THEN <<>> ELSE SrcData(p)
FcSrcFile(p) == File(FcSrcData(p), "t_src")
FcDstChoices == {Absent, File(<<7, 7, 7>>, "t_old"), File(<<>>, "t_old")}

\* some tier of fast_copy reported success: the clone ioctl returned 0, a
\* loop moved the whole file, or std::fs::copy returned Ok.
TierSucceeded(src, f) ==
    /\ f.open_src
    /\ f.open_dst
    /\ \/ f.ficlone
       \/ f.cfr > 0 /\ f.cfr = Len(src.data)
       \/ f.cfr = 0 /\ f.sendfile > 0 /\ f.sendfile = Len(src.data)
       \/ ~f.ficlone /\ f.cfr = 0 /\ f.sendfile = 0 /\ f.std_copy

FastCopyFrame ==
    UNCHANGED <<argVars, cmpVars, pipeVars, dstDirs, created_dirs, handled, dstLinks, delVars,
                syncVars, backVars, fifoVars, wchunk, unopened>>

\* lib.rs 188-196: src_modified read unless no_preserve_times, then
\* let copied = fast_copy(src, dst, size, src_modified, preserve_times).
FastCopyCall ==
    /\ engine = "fastcopy"
    /\ jpc = "fast_copy"
    /\ \E m \in (IF no_preserve_times THEN {FALSE} ELSE BOOLEAN),
          f \in FastCopyFaults(Len(FcSrcData(wjob[1]))) :
         LET src == FcSrcFile(wjob[1])
             r   == fast_copy(src, dst[wjob[1]], sent_size, m, ~no_preserve_times, f)
         IN /\ dst' = [dst EXCEPT ![wjob[1]] = r.file]
            /\ copied' = r.copied
            /\ src_time' = m
            /\ attempts' = <<Call("fast_copy", TierSucceeded(src, f), r.copied)>>
            /\ mutations' = mutations + (IF f.open_src /\ f.open_dst THEN 1 ELSE 0)
    /\ jpc' = "returned"
    /\ FastCopyFrame

\* lib.rs 197: if copied == 0 the caller goes to its fallback.
FastCopyTest ==
    /\ engine = "fastcopy"
    /\ jpc = "returned"
    /\ jpc' = IF copied = 0 THEN "fallback1" ELSE "inc"
    /\ UNCHANGED <<dst, copied, src_time, attempts, mutations>>
    /\ FastCopyFrame

InitFastCopy ==
    /\ engine = "fastcopy"
    /\ threads = 1
    /\ dry_run = FALSE
    /\ include = None
    /\ exclude = None
    /\ both_local = TRUE
    /\ no_preserve_times \in BOOLEAN
    /\ senders = {}
    /\ queue = <<>>
    /\ ppc = "done"
    /\ pcur = NoJob
    /\ visited = {}
    /\ unlisted = {}
    /\ wpc = [w \in Workers |-> IF w = 1 THEN "recv" ELSE "none"]
    /\ \E p \in FcFiles :
         /\ wjob = [w \in Workers |-> IF w = 1 THEN p ELSE NoJob]
         /\ sent_size \in {Len(FcSrcData(p)), 0}
    /\ errors = <<>>
    /\ mainpc = "join_workers"
    /\ result = NoResult
    /\ pbLen = sent_size
    /\ pbPos = 0
    /\ dst \in [FcFiles -> FcDstChoices]
    /\ dstDirs = {"."}
    /\ dstLinks = {}
    /\ created_dirs = [w \in Workers |-> IF w = 1 THEN {"."} ELSE {}]
    /\ handled = [p \in CopyFiles |-> 0]
    /\ mutations = 0
    /\ DeleteIdle
    /\ SyncIdle
    /\ jpc = "fast_copy"
    /\ copied = 0
    /\ src_time = "unread"
    /\ attempts = <<>>
    /\ BackIdle
    /\ FifoIdle
    /\ CmpIdle
    /\ wchunk = [w \in Workers |-> NoChunk]
    /\ unopened = {}
    /\ before = [dst |-> dst, dirs |-> dstDirs, tree |-> tree]

NextFastCopy ==
    \/ FastCopyCall
    \/ FastCopyTest

SpecFastCopy == InitFastCopy /\ [][NextFastCopy]_vars

(***************************************************************************)
(* The directory comparison: Synchronizer::compare_dirs_local              *)
(* (protocols/synchronizer.rs 183-232), LocalProtocal::compare_dirs        *)
(* (protocols/local_protocol.rs 171-216) and compare_dirs (main.rs         *)
(* 233-297).  A tree is the set of relative paths WalkDir yields under its *)
(* root: the root itself (the empty path) and the entries below it, or     *)
(* nothing when the root cannot be walked.                                 *)
(***************************************************************************)
CmpPaths == {"", "a", "b", "b/c"}
\* PathBuf's Ord, used by sort() in main.rs 249-250
PathRank(p) == CASE p = "" -> 0 [] p = "a" -> 1 [] p = "b" -> 2 [] OTHER -> 3
CmpTrees == {t \in SUBSET CmpPaths : (t # {} => "" \in t) /\ ("b/c" \in t => "b" \in t)}

\* impl Not for Status, main.rs 222-231
not(s) == IF s = "Passed" THEN "Failed" ELSE "Passed"

\* compare_file_metadata(src, dest, file): Failed on a size, type or content
\* mismatch of the two entries
compare_file_metadata(file) == IF file \in differing THEN "Failed" ELSE "Passed"

\* the paths of a set in ascending order
RECURSIVE SortedPaths(_)
SortedPaths(S) ==
    IF S = {} THEN <<>>
    ELSE LET m == CHOOSE x \in S : \A y \in S : PathRank(x) <= PathRank(y)
         IN <<m>> \o SortedPaths(S \ {m})

\* iter().fold(status, |acc, &_| acc.not()): one step per element of the
\* vector, whatever the element is
RECURSIVE FoldNot(_, _)
FoldNot(acc, results) ==
    IF results = <<>> THEN acc ELSE FoldNot(not(acc), Tail(results))

\* synchronizer.rs 187-231 and local_protocol.rs 172-215 (the same code):
\* missing and extra paths set the status to Failed; comparison_results holds
\* one element per common path, Some(path) for a failed comparison and None
\* otherwise; the status is then folded over comparison_results.
compare_dirs_local(src, dest) ==
    LET missing == src \ dest
        extra   == dest \ src
        common  == SortedPaths(src \cap dest)
        status0 == IF missing # {} \/ extra # {} THEN "Failed" ELSE "Passed"
        comparison_results ==
            [i \in 1..Len(common) |->
                IF compare_file_metadata(common[i]) = "Failed"
                THEN [some |-> TRUE, path |-> common[i]]
                ELSE [some |-> FALSE, path |-> ""]]
    IN FoldNot(status0, comparison_results)

\* main.rs 252-294: the merge loop over the two sorted vectors.
RECURSIVE MergeLoop(_, _, _, _, _)
MergeLoop(s, d, i, j, st) ==
    IF ~(i <= Len(s) \/ j <= Len(d)) THEN st
    ELSE IF i <= Len(s) /\ j <= Len(d)
         THEN IF PathRank(s[i]) < PathRank(d[j]) THEN MergeLoop(s, d, i + 1, j, "Failed")
              ELSE IF PathRank(s[i]) > PathRank(d[j]) THEN MergeLoop(s, d, i, j + 1, "Failed")
              ELSE MergeLoop(s, d, i + 1, j + 1,
                             IF compare_file_metadata(s[i]) = "Failed" THEN "Failed" ELSE st)
         ELSE IF i <= Len(s) THEN MergeLoop(s, d, i + 1, j, "Failed")
              ELSE MergeLoop(s, d, i, j + 1, "Failed")

\* main.rs 233-297
compare_dirs(src, dest) ==
    MergeLoop(SortedPaths(src), SortedPaths(dest), 1, 1, "Passed")

CompareFrame ==
    UNCHANGED <<argVars, pipeVars, copyVars, dstLinks, delVars, syncVars, jobVars,
                backVars, fifoVars, wchunk, unopened,
                src_files_paths, dest_files_paths, differing>>

\* Synchronizer::compare_dirs_local(source_root, dest_root)
CompareDirsLocal ==
    /\ engine = "compare"
    /\ status.synchronizer = "none"
    /\ status' = [status EXCEPT
                     !.synchronizer = compare_dirs_local(src_files_paths, dest_files_paths)]
    /\ CompareFrame

\* LocalProtocal::compare_dirs(src, dest)
CompareDirsProtocol ==
    /\ engine = "compare"
    /\ status.local_protocol = "none"
    /\ status' = [status EXCEPT
                     !.local_protocol = compare_dirs_local(src_files_paths, dest_files_paths)]
    /\ CompareFrame

\* compare_dirs(src, dest) of main.rs
CompareDirsMain ==
    /\ engine = "compare"
    /\ status.main = "none"
    /\ status' = [status EXCEPT !.main = compare_dirs(src_files_paths, dest_files_paths)]
    /\ CompareFrame

InitCompare ==
    /\ engine = "compare"
    /\ threads = 0
    /\ dry_run = FALSE
    /\ include = None
    /\ exclude = None
    /\ both_local = TRUE
    /\ no_preserve_times = FALSE
    /\ senders = {}
    /\ queue = <<>>
    /\ ppc = "done"
    /\ pcur = NoJob
    /\ visited = {}
    /\ unlisted = {}
    /\ sent_size = 0
    /\ wpc = [w \in Workers |-> "none"]
    /\ wjob = [w \in Workers |-> NoJob]
    /\ errors = <<>>
    /\ mainpc = "none"
    /\ result = NoResult
    /\ pbLen = 0
    /\ pbPos = 0
    /\ dst = [p \in CopyFiles |-> Absent]
    /\ dstDirs = {}
    /\ dstLinks = {}
    /\ created_dirs = [w \in Workers |-> {}]
    /\ handled = [p \in CopyFiles |-> 0]
    /\ mutations = 0
    /\ DeleteIdle
    /\ SyncIdle
    /\ JobIdle
    /\ BackIdle
    /\ FifoIdle
    /\ wchunk = [w \in Workers |-> NoChunk]
    /\ unopened = {}
    /\ src_files_paths \in CmpTrees
    /\ dest_files_paths \in CmpTrees
    /\ differing \in SUBSET (src_files_paths \cap dest_files_paths)
    /\ status = NoStatus
    /\ before = [dst |-> dst, dirs |-> dstDirs, tree |-> tree]

NextCompare ==
    \/ CompareDirsLocal
    \/ CompareDirsProtocol
    \/ CompareDirsMain

SpecCompare == InitCompare /\ [][NextCompare]_vars

(***************************************************************************)
(* Properties.                                                             *)
(***************************************************************************)
Returned == mainpc = "returned"
NoFilters == ~include.some /\ ~exclude.some

\* C1: whenever copy (dry_run = false) has returned Ok, every source file
\* that passes the filters is at the mirrored destination path with the
\* source's bytes.
C1_CopyCompleteness ==
    (engine = "copy" /\ Returned /\ ~dry_run /\ result.kind = "Ok") =>
        \A p \in CopyFiles :
            PassesFilters(p) => dst[p].exists /\ dst[p].data = SrcData(p)

\* C2: sync_dir_chunked runs to completion: there is no state in which the
\* call has not returned and no thread can take a step any more.
C2_SyncRunsToCompletion ==
    engine = "sync" => (Returned \/ ENABLED NextSync)

\* C3: a worker that has entered backend.delete on a directory finds every
\* enqueued descendant of that directory already deleted (its own
\* backend.delete call finished).
C3_DirAfterDescendants ==
    \A w \in Workers :
        (engine = "delete" /\ wjob[w] \in started /\ IsDir(wjob[w])) =>
            \A e \in Below(wjob[w]) : PassesFilters(e) => e \in finished

\* C4: whenever delete (dry_run = false, no filters) has returned Ok, no
\* entry of the tree exists any more.
C4_DeleteOkLeavesNothing ==
    (engine = "delete" /\ Returned /\ ~dry_run /\ NoFilters /\ result.kind = "Ok") =>
        tree = {}

\* C5: a delete (dry_run = false, no filters, at least one worker) during
\* which the backend injected no fault leaves no entry, records no error and
\* returns Ok.
C5_FaultFreeDeleteClean ==
    (engine = "delete" /\ Returned /\ ~dry_run /\ NoFilters /\ threads >= 1
        /\ ~injected /\ unlisted = {}) =>
        /\ tree = {}
        /\ errors = <<>>
        /\ result.kind = "Ok"

\* C6: with dry_run = true, copy and delete issue no mutating call: the
\* destination files and directories and the target tree stay as they were
\* before the call.
C6_DryRunNoMutation ==
    dry_run =>
        /\ mutations = 0
        /\ dst = before.dst
        /\ dstDirs = before.dirs
        /\ tree = before.tree

\* a dry-run copy that went through both files and reported their sizes
C6_Witness ==
    /\ engine = "copy" /\ dry_run /\ Returned
    /\ \A p \in CopyFiles : handled[p] = 1
    /\ pbPos = Len(SrcData("a.txt")) + Len(SrcData("dir/b.bin"))

\* C7: copy and delete return Ok exactly when no job recorded a failure;
\* otherwise they return Other with the number of failed jobs.  A failed job
\* has exactly one entry in the error list, and the list is read only after
\* the producer and every worker have ended.
FailedJobs == {errors[i].job : i \in DOMAIN errors}
C7_AggregateResult ==
    /\ \A i, j \in DOMAIN errors : errors[i].job = errors[j].job => i = j
    /\ Returned =>
         /\ ppc = "done"
         /\ \A w \in Workers : wpc[w] \in {"exit", "none"}
         /\ (result.kind = "Ok") = (FailedJobs = {})
         /\ result.kind # "Ok" =>
                result.kind = "Other" /\ result.count = Cardinality(FailedJobs)

\* an invocation that returned the aggregate error for two failed jobs
C7_Witness ==
    Returned /\ result.kind = "Other" /\ result.count = 2 /\ Cardinality(FailedJobs) = 2

\* C8: in sync a failed whole-file copy or chunk write is in the shared
\* error collector, and sync returns Ok only when nothing failed.
C8_SyncFailuresReported ==
    engine = "sync" =>
        /\ failed # {} => Len(errors) = Cardinality(failed)
        /\ (Returned /\ result.kind = "Ok") => failed = {}

\* C9: a file whose destination existed before the call with the source's
\* size and modification time is not read, written, truncated or touched:
\* its bytes and mtime stay, and once the producer has compared it, its full
\* size has been sent to the progress channel, which the progress thread
\* adds to the bar.
Unchanged0(p) ==
    /\ before.dst[p].exists
    /\ Len(before.dst[p].data) = Len(SyncSrcData(p))
    /\ before.dst[p].mtime = SyncSrc(p).mtime
ReportedTotal == reported["big.bin"] + reported["sub/s.txt"]
RECURSIVE SumSeq(_)
SumSeq(s) == IF s = <<>> THEN 0 ELSE Head(s) + SumSeq(Tail(s))
DiffChunks0(p) ==
    {i \in 0..(DivCeil(Len(SyncSrcData(p)), chunk_size) - 1) :
        Slice(SyncSrcData(p), i * chunk_size, chunk_size)
            # Slice(before.dst[p].data, i * chunk_size, chunk_size)}
AllChunksHandled(p) ==
    /\ route[p] = "chunks"
    /\ \A i \in 0..(DivCeil(Len(SyncSrcData(p)), chunk_size) - 1) : Item(p, i) \in handled
OneChunkDiffers(p) ==
    /\ Len(SyncSrcData(p)) > LARGE_FILE_THRESHOLD
    /\ before.dst[p].exists
    /\ Len(before.dst[p].data) = Len(SyncSrcData(p))
    /\ Cardinality(DiffChunks0(p)) = 1
WrittenChunks(p) == {it.chunk : it \in {x \in written : x.path = p}}
NoCollision(p) ==
    \A i \in DiffChunks0(p) :
        Adler32(Slice(SyncSrcData(p), i * chunk_size, chunk_size))
            # Adler32(Slice(before.dst[p].data, i * chunk_size, chunk_size))
Jobs == IF engine = "copy" THEN CopyFiles ELSE DelEntries
Sent ==
    IF engine = "copy"
    THEN {p \in (visited \cap CopyFiles) \ unlisted : PassesFilters(p)}
    ELSE {e \in visited \ unlisted :
             PassesFilters(e) /\ (IsDir(e) => ppc \in {"dirs", "done"})}
            \ {dirs[i] : i \in DOMAIN dirs}
InQueue(j) == Cardinality({i \in DOMAIN queue : queue[i].path = j})
Held(j) == Cardinality({w \in Workers : wjob[w] = j})
C11_ExactlyOnce ==
    (engine \in {"copy", "delete"} /\ threads >= 1) =>
        /\ \A j \in Jobs :
              InQueue(j) + Held(j) + handled[j] = (IF j \in Sent THEN 1 ELSE 0)
        /\ Returned => \A j \in Sent : handled[j] = 1

\* two workers, every entry of the tree processed once although deletes failed
C11_Witness ==
    /\ engine = "delete" /\ threads = 2 /\ Returned /\ NoFilters
    /\ Len(errors) >= 2
    /\ \A e \in DelEntries : handled[e] = 1

\* C12: every copy and every delete terminates, for every thread count (0
\* included) and every interleaving: once the producer has finished and main
\* has dropped its sender the channel is disconnected, and the call
\* eventually returns.
\* Stated with a variant: StepsLeft bounds the steps the threads of the call
\* can still take.  Every step lowers it, and a call that has not returned can
\* take a step, so every scheduling of the threads reaches the return.
InLoop(w) == wpc[w] \in {"recv", "delete", "remove_dir_all", "remove_file"}
ProducerLeft ==
    (IF engine = "copy"
     THEN 5 * Cardinality(CopyWalk \ visited) + (IF ppc = "account" THEN 1 ELSE 0)
     ELSE 5 * Cardinality(DelEntries \ visited) + 4 * Len(dirs))
    + (IF ppc # "done" THEN 1 ELSE 0)
WorkersLeft ==
    3 * Len(queue)
    + 2 * Cardinality({w \in Workers : wpc[w] = "delete"})
    + Cardinality({w \in Workers : wpc[w] \in {"remove_dir_all", "remove_file"}})
    + Cardinality({w \in Workers : InLoop(w)})
MainLeft ==
    CASE mainpc = "spawn" -> MaxThreads + 3
      [] mainpc = "join_producer" -> 2
      [] mainpc = "join_workers" -> 1
      [] OTHER -> 0
StepsLeft == ProducerLeft + WorkersLeft + MainLeft
C12_Terminates ==
    /\ []((ppc = "done" /\ mainpc # "spawn") => senders = {})
    /\ [](Returned \/ ENABLED NextPool)
    /\ [][StepsLeft' < StepsLeft]_vars

\* a call with no worker has returned and left the jobs in the channel
C12_Witness ==
    /\ Returned /\ threads = 0 /\ queue # <<>> /\ senders = {}

\* C13: in copy, delete and sync an entry the traversal could not list is
\* passed over: the invocation goes through the remaining entries, and when
\* it has returned it has returned Ok unless a job failed.
AllEntries ==
    CASE engine = "copy" -> CopyWalk
      [] engine = "delete" -> DelEntries
      [] OTHER -> SyncFiles
C13_WalkFaultSkipped ==
    (unlisted # {} /\ Returned) =>
        /\ visited = AllEntries
        /\ (errors = <<>> /\ failed = {}) => result.kind = "Ok"

\* C14: a local-to-local copy job in which reflink, copy_file_range and
\* sendfile fail and every std::fs::copy fails, while opening, creating,
\* reading and writing the two files work, ends with the destination
\* byte-identical to the source, written by the streaming copy of
\* LocalBackend::copy_file, and with nothing added to the error list.
Did(name, ok) == \E i \in DOMAIN attempts : attempts[i].call = name /\ attempts[i].ok = ok
JobDone == engine = "job" /\ jpc = "done"
AcceleratedTiersFailed ==
    Did("ficlone", FALSE) /\ Did("copy_file_range", FALSE) /\ Did("sendfile", FALSE)
EveryStdCopyFailed ==
    Did("fc_std_copy", FALSE) /\ Did("std_copy", FALSE) /\ Did("cf_std_copy", FALSE)
PlainIoWorks ==
    \A name \in {"create_dir_all", "open_src", "open_dst", "cf_open_src", "cf_create_dst",
                  "cf_stream"} : ~Did(name, FALSE)
C14_StreamingFallback ==
    (JobDone /\ both_local /\ ~dry_run
        /\ AcceleratedTiersFailed /\ EveryStdCopyFailed /\ PlainIoWorks) =>
        /\ Did("cf_stream", TRUE)
        /\ dst[JobPath].data = SrcData(JobPath)
        /\ errors = <<>>

\* the older a.txt was replaced by the source's bytes through the stream
C14_Witness ==
    /\ JobDone /\ both_local /\ ~dry_run
    /\ AcceleratedTiersFailed /\ EveryStdCopyFailed /\ PlainIoWorks
    /\ JobPath = "a.txt" /\ before.dst["a.txt"].exists
    /\ Did("cf_stream", TRUE)
    /\ dst["a.txt"].data = SrcData("a.txt")

\* C15: with fault-free backends the OS-accelerated local path leaves what
\* the get/put path leaves: a job done through the local path, no call of
\* which failed, ends with the destination file (bytes and metadata) and
\* directories that source.get, create_dir_all and dest.put give from the
\* same start.
FaultFree == \A i \in DOMAIN attempts : attempts[i].ok
GetPutFile(p) == put(before.dst[p], SrcData(p), [create |-> TRUE, written |-> Len(SrcData(p))]).file
C15_LocalPathSameAsGetPut ==
    (JobDone /\ ~dry_run /\ both_local /\ FaultFree) =>
        /\ dst[JobPath] = GetPutFile(JobPath)
        /\ dstDirs = before.dirs \cup DirChain(Parent(JobPath))

\* C16: a copy job that ends without an error, with preserve-times on, the
\* source's modification time readable and no failed set-mtime call, leaves
\* the destination with the source's modification time, whichever tier wrote
\* the file; with no_preserve_times the job never sets the time.
SetMtimeCalls == {"fc_set_mtime", "fb1_set_mtime"}
SrcTimeReadable == ~Did("src_modified", FALSE) /\ ~Did("fb1_src_modified", FALSE)
SetMtimeFailed == \E c \in SetMtimeCalls : Did(c, FALSE)
C16_MtimePreserved ==
    (JobDone /\ ~dry_run /\ errors = <<>>) =>
        /\ (~no_preserve_times /\ SrcTimeReadable /\ ~SetMtimeFailed)
              => dst[JobPath].mtime = SrcFile(JobPath).mtime
        /\ no_preserve_times
              => /\ \A c \in SetMtimeCalls : ~Did(c, TRUE) /\ ~Did(c, FALSE)
                 /\ dst[JobPath].mtime # SrcFile(JobPath).mtime

\* C17: after a copy that returned Ok, every symlink of the source tree that
\* passes the filters (a broken one included) is a symlink at the mirrored
\* destination path with the source link's target, and it has not been
\* materialized as a regular file.
C17_SymlinksPreserved ==
    (engine = "copy" /\ Returned /\ ~dry_run /\ threads >= 1 /\ unlisted = {}
        /\ result.kind = "Ok") =>
        \A l \in CopyLinks : PassesFilters(l) => <<l, LinkTarget(l)>> \in dstLinks

\* C18: copy queues a regular file exactly when (no include pattern is given
\* or it matches the path) and (no exclude pattern is given or it does not
\* match); a file that fails the filters is never in the channel, never
\* handled by a worker and its destination stays as it was before the call.
Wanted(p) ==
    /\ (include = None \/ p \in include.re)
    /\ (exclude = None \/ p \notin exclude.re)
C18_FilteredQueueing ==
    engine = "copy" =>
        \A p \in CopyFiles :
            /\ p \in visited \ unlisted
                  => ((InQueue(p) + handled[p] = 1) <=> Wanted(p))
            /\ ~Wanted(p) => /\ InQueue(p) = 0
                             /\ handled[p] = 0
                             /\ dst[p] = before.dst[p]

\* a.txt was included and copied, dir/b.bin was visited and left out
C18_Witness ==
    /\ engine = "copy" /\ Returned /\ ~dry_run /\ include # None /\ exclude = None
    /\ unlisted = {}
    /\ handled["a.txt"] = 1 /\ dst["a.txt"].data = SrcData("a.txt")
    /\ handled["dir/b.bin"] = 0 /\ ~dst["dir/b.bin"].exists

\* C19: copy is idempotent: a job of a second fault-free copy of an unchanged
\* source, run with the same options on the tree the first copy left, leaves
\* the destination as it was: same paths, same bytes, same modification
\* times.
SecondCopy == JobDone /\ ~dry_run /\ FaultFree /\ before.dst = FirstCopyTree
ProducerIdle == ppc \in {"walk", "done"}
C20_ProgressBounded ==
    /\ [](engine = "copy" =>
            /\ ppc = "account" => pbPos <= pbLen + Len(SrcData(pcur))
            /\ ProducerIdle => pbPos <= pbLen)
    /\ [][engine = "copy" =>
            /\ pbLen' >= pbLen
            /\ ppc = "done" => pbLen' = pbLen]_vars

\* C21: a dry-run copy and a real copy of the same tree with the same filters
\* end with the same totals: once copy has returned (with at least one
\* worker), processed equals the discovered total, which is the sum of the
\* declared sizes of the jobs that were sent, with dry_run and without.
C21_DryRunSameTotals ==
    (engine = "copy" /\ Returned /\ threads >= 1) => pbPos = pbLen

\* C22: LocalBackend put followed by get is a round trip: while the data of
\* a put that returned Ok stands at a path, a get of that path that meets no
\* I/O fault returns Ok with exactly that data, and exists returns true.
C22_PutGetRoundTrip ==
    engine = "backend" =>
        /\ \A p \in CopyFiles :
              put_data[p].some =>
                  /\ exists(p)
                  /\ get(dst[p], [open |-> TRUE, read |-> TRUE])
                        = [ok |-> TRUE, data |-> put_data[p].data]
        /\ (ret.op = "get" /\ ~ret.faulted /\ put_data[ret.path].some)
              => ret.ok /\ ret.data = put_data[ret.path].data
        /\ (ret.op = "exists" /\ ret.path \in CopyFiles /\ put_data[ret.path].some)
              => ret.found

\* the older a.txt was overwritten by put(a.txt, <<5, 6>>) and read back
C22_Witness ==
    /\ engine = "backend"
    /\ before.dst["a.txt"].exists
    /\ put_data["a.txt"] = [some |-> TRUE, data |-> <<5, 6>>]
    /\ ret.op = "get" /\ ret.path = "a.txt" /\ ret.ok /\ ret.data = <<5, 6>>

\* C23: LocalBackend put creates missing parent directories: a put that
\* meets no I/O fault returns Ok, also when the parent directory of the path
\* did not exist, and afterwards the file exists with the data.
C23_PutCreatesParents ==
    (engine = "backend" /\ ret.op = "put" /\ ~ret.faulted) =>
        /\ ret.ok
        /\ dst[ret.path].exists
        /\ dst[ret.path].data = ret.data

\* C24: the items the delete producer sends have every regular file before
\* every directory and the directories in non-increasing order of path
\* component count; the workers receive the items in exactly the order in
\* which they were sent.
C24_FilesThenDirsDeepestFirst ==
    engine = "delete" =>
        /\ \A i, j \in 1..Len(enq) :
              i < j => /\ enq[i].is_dir => enq[j].is_dir
                       /\ (enq[i].is_dir /\ enq[j].is_dir)
                             => Components(enq[i].path) >= Components(enq[j].path)
        /\ enq = deq \o queue

\* both files and both directories were sent and received, r/d before r
C24_Witness ==
    /\ engine = "delete" /\ Returned /\ threads = 2
    /\ Len(deq) = 4
    /\ deq[3].path = "r/d" /\ deq[4].path = "r"

\* C25: the chunk jobs of one file touch pairwise disjoint byte ranges of the
\* destination, nothing but a chunk job's write changes the destination file
\* while chunk jobs of it are queued or held, and once all its chunk jobs are
\* processed without an I/O fault the destination content is the one that
\* handling the jobs one after the other in index order gives, whichever
\* workers took them and in whatever order they read and wrote.
Range(job) == job.offset .. (job.offset + job.size - 1)
QueuedJobs == {queue[i] : i \in 1..Len(queue)}
HeldJobs == {wchunk[w] : w \in {v \in Workers : wpc[v] = "write"}}
InFlight(p) == {job \in QueuedJobs \cup HeldJobs : job.path = p}
NoFault == [open_src |-> TRUE, read_src |-> TRUE, open_dst |-> TRUE, seek_dst |-> TRUE,
            read_dst |-> TRUE, write |-> TRUE]
RECURSIVE InOrder(_, _)
InOrder(jobs, d) ==
    IF jobs = <<>> THEN d
    ELSE InOrder(Tail(jobs), ChunkOutcome(Head(jobs), d, NoFault).file)
C26_ChunkPartition ==
    engine = "chunks" =>
        LET S == Head(files).size
            c == chunk_size
            n == Len(queue)
        IN /\ \A i \in 1..n :
                 /\ queue[i].chunk_index = i - 1
                 /\ queue[i].offset = (i - 1) * c
                 /\ queue[i].size = Min(c, S - (i - 1) * c)
                 /\ queue[i].size \in 1..c
                 /\ \A j \in 1..n : i # j => Range(queue[i]) \cap Range(queue[j]) = {}
           /\ ppc = "done" =>
                 /\ n * c >= S /\ (n - 1) * c < S
                 /\ UNION {Range(queue[i]) : i \in 1..n} = 0..(S - 1)

\* 7 bytes in chunks of 3: three jobs, the last one a single byte
C26_Witness ==
    /\ engine = "chunks" /\ ppc = "done"
    /\ Head(files).size = 7 /\ chunk_size = 3
    /\ Len(queue) = 3 /\ queue[3].offset = 6 /\ queue[3].size = 1

\* C27: a chunk worker that has read n source bytes and m destination bytes
\* for its range goes on to write exactly when m differs from n or the two
\* Adler-32 checksums differ, and leaves the file as it is when they match;
\* a write puts the n source bytes at the job's offset, changes no byte of
\* the destination outside [offset, offset + n) and does not shorten it.
SrcBuf(job) == Slice(SyncSrcData(job.path), job.offset, job.size)
ReadsOk(f) == f.open_src /\ f.read_src /\ f.open_dst /\ f.seek_dst
ChunkDiffers(job, d, f) ==
    LET dst_read == IF f.read_dst THEN Slice(d.data, job.offset, Len(SrcBuf(job))) ELSE <<>>
    IN \/ Len(dst_read) # Len(SrcBuf(job))
       \/ Adler32(dst_read) # Adler32(SrcBuf(job))
C27_WriteIffDiffers ==
    /\ []((engine = "sync" /\ queue # <<>>) =>
            LET job == Head(queue)
                d   == dst[job.path]
            IN \A f \in {g \in ChunkFaults : ReadsOk(g)} :
                  /\ NeedsWrite(job, d, f) <=> ChunkDiffers(job, d, f)
                  /\ ~ChunkDiffers(job, d, f) => ChunkOutcome(job, d, f).file = d)
    /\ [][engine = "sync" =>
            \A w \in Workers :
               LET job == wchunk[w]
                   old == dst[job.path].data
                   new == dst'[job.path].data
               IN /\ (wpc[w] = "recv" /\ wpc'[w] = "write") => dst' = dst
                  /\ (wpc[w] = "write" /\ wpc'[w] = "recv" /\ dst' # dst) =>
                        /\ Slice(new, job.offset, job.size) = SrcBuf(job)
                        /\ Len(new) >= Len(old)
                        /\ \A i \in 1..Len(old) : (i - 1) \notin Range(job) => new[i] = old[i]
                        /\ \A q \in SyncFiles \ {job.path} : dst'[q] = dst[q]]_vars

\* the first chunk of big.bin matched and was left alone, the second
\* differed in its last byte and was the only one written
C27_Witness ==
    /\ engine = "sync" /\ ~injected /\ chunk_size = 3
    /\ before.dst["big.bin"].data = <<0, 2, 0, 1, 1, 2>>
    /\ AllChunksHandled("big.bin")
    /\ WrittenChunks("big.bin") = {1}
    /\ dst["big.bin"].data = SyncSrcData("big.bin")

\* C28: in the sync producer every file that is not skipped by the metadata
\* shortcut is either chunked or copied whole: chunk jobs are generated only
\* for a file whose size exceeds the large-file threshold and whose
\* destination exists; every other file is copied whole and gets no chunk
\* job.
Skipped0(p) == Unchanged0(p)
Chunked(p) == \E i \in 1..Len(queue) : queue[i].path = p
Large(p) == Len(SyncSrcData(p)) > LARGE_FILE_THRESHOLD
AtLeastThreshold(p) == Len(SyncSrcData(p)) >= LARGE_FILE_THRESHOLD
ChunkItems(p) ==
    {Item(p, i) : i \in 0..(DivCeil(Len(SyncSrcData(p)), chunk_size) - 1)}
C29_UnopenedStillWritten ==
    engine = "sync" =>
        \A p \in SyncFiles :
            /\ \A it \in (unopened \cap handled) \cap ChunkItems(p) :
                  Slice(dst[p].data, it.chunk * chunk_size, chunk_size)
                    = Slice(SyncSrcData(p), it.chunk * chunk_size, chunk_size)
            /\ (AllChunksHandled(p) /\ ChunkItems(p) \subseteq unopened) =>
                  dst[p].exists /\ dst[p].data = SyncSrcData(p)

(***************************************************************************)
(* C30: the tier chain of fast_copy.                                       *)
(***************************************************************************)
\* the tiers of fast_copy in the order of the code, lib.rs 347-388
TierRank(name) ==
    CASE name = "ficlone"         -> 1
      [] name = "copy_file_range" -> 2
      [] name = "sendfile"        -> 3
      [] name = "fc_std_copy"     -> 4
      [] OTHER                    -> 0
\* the positions of the job's calls that are tiers of fast_copy
TierCalls == {i \in DOMAIN attempts : TierRank(attempts[i].call) > 0}
TierCalled(name) == \E i \in TierCalls : attempts[i].call = name
\* fast_copy is past its last tier
TiersOver == jpc \in {"fc_mtime", "fallback1", "inc", "done"}

FcReturned == engine = "fastcopy" /\ jpc # "fast_copy"

\* C31: fast_copy returns the number of bytes it copied into the
\* destination, and returns 0 only when no tier produced the destination
\* file, so that for every source file, the empty one included, a copy that
\* succeeded is told from total failure by the returned value.
C31_ZeroMeansFailure ==
    FcReturned =>
        /\ attempts[1].ok => /\ copied # 0
                             /\ copied = Len(dst[wjob[1]].data)
        /\ copied = 0 => ~attempts[1].ok

(***************************************************************************)
(* C32: what the fallback chain of a local-to-local job reports.           *)
(***************************************************************************)
LocalJob == engine = "job" /\ both_local /\ ~dry_run
\* fast_copy returned 0 without having copied
FastCopyFailed ==
    \/ Did("open_src", FALSE)
    \/ Did("open_dst", FALSE)
    \/ /\ Did("ficlone", FALSE) /\ Did("copy_file_range", FALSE)
       /\ Did("sendfile", FALSE) /\ Did("fc_std_copy", FALSE)
\* LocalBackend::copy_file returned Err
CopyFileFailed ==
    /\ Did("cf_std_copy", FALSE)
    /\ Did("cf_open_src", FALSE) \/ Did("cf_create_dst", FALSE) \/ Did("cf_stream", FALSE)
AllTiersFailed == FastCopyFailed /\ Did("std_copy", FALSE) /\ CopyFileFailed
LaterTierSucceeded ==
    Did("std_copy", TRUE) \/ Did("cf_std_copy", TRUE) \/ Did("cf_stream", TRUE)
NoTierTried ==
    \A i \in DOMAIN attempts : attempts[i].call = "create_dir_all"

DelBusy == {w \in Workers : wpc[w] \in {"delete", "remove_dir_all", "remove_file"}}

\* C33: in delete without dry_run the progress counter goes up by one for
\* every item a worker has dequeued and gone through, whether the removal
\* succeeded or failed, a failure being recorded in the error list as well:
\* the counter equals the number of items dequeued and finished, and once
\* delete has returned it equals the number of items dequeued.
C33_ProgressPerItem ==
    (engine = "delete" /\ ~dry_run) =>
        /\ pbPos = Len(deq) - Cardinality(DelBusy)
        /\ Returned => pbPos = Len(deq)

\* C34: delete's progress total is fixed by the counting pass: at every
\* moment it is the number of entries that pass the filters, the producer
\* and the workers do not change it, and it is the number of items the
\* producer has enqueued when it is done.
C34_TotalFixedUpFront ==
    engine = "delete" =>
        /\ pbLen = total_count
        /\ (ppc = "done" /\ unlisted = {}) => Len(enq) = total_count

\* C36: delete never removes an entry that fails the filters: every entry
\* of the tree that does not match include, or matches exclude, is still
\* there, also when a directory above it passes the filters.
C36_FilteredEntriesKept ==
    engine = "delete" =>
        \A e \in DelEntries : ~PassesFilters(e) => e \in tree

(***************************************************************************)
(* C35: the directory comparison.                                          *)
(***************************************************************************)
\* no path missing, none extra, every common entry's comparison passes
TreesAgree ==
    /\ src_files_paths \ dest_files_paths = {}
    /\ dest_files_paths \ src_files_paths = {}
    /\ \A f \in src_files_paths \cap dest_files_paths :
          compare_file_metadata(f) = "Passed"
Computed == {s \in {status.synchronizer, status.local_protocol, status.main} : s # "none"}

\* C35: each implementation of the directory comparison returns Passed
\* exactly when no relative path is missing in the destination, none is
\* extra and every common entry's metadata comparison passes (so Passed for
\* identical trees of any number of entries), and the three agree.
C35_PassedIffTreesAgree ==
    engine = "compare" =>
        /\ \A s \in Computed : (s = "Passed") <=> TreesAgree
        /\ Cardinality(Computed) <= 1

(***************************************************************************)
(* C37, C39: what a local-to-local copy job leaves of the destination.     *)
(***************************************************************************)
\* C37: a local-to-local copy job never counts as a success with a
\* truncated destination: a job that ends without an entry in the error
\* list leaves a destination file as long as the source file, also when an
\* accelerated tier moved only a part of the file and stopped.
C37_NoTruncatedSuccess ==
    (LocalJob /\ JobDone /\ errors = <<>>) =>
        /\ dst[JobPath].exists
        /\ Len(dst[JobPath].data) = JobSize

\* C39: a copy job that fails, an error being recorded, leaves a
\* destination file that existed before the job with its previous content.
C39_FailureKeepsDestination ==
    (LocalJob /\ JobDone /\ errors # <<>> /\ before.dst[JobPath].exists) =>
        dst[JobPath] = before.dst[JobPath]

(***************************************************************************)
(* C38, C40: what sync leaves of the files it has gone through.            *)
(***************************************************************************)
\* no call of the producer or of a worker has failed
FaultFreeSync ==
    /\ ~injected
    /\ failed = {}
    /\ \A p \in SyncFiles : route[p] # "unreadable"
\* the producer is done and every chunk job has been processed
SyncSettled ==
    /\ engine = "sync"
    /\ ppc = "done"
    /\ queue = <<>>
    /\ \A w \in Workers : wchunk[w] = NoChunk
    /\ \A p \in SyncFiles : route[p] = "chunks" => AllChunksHandled(p)

\* C38: once all chunk jobs of a large existing file whose destination
\* length differed from the source's have been processed, the destination
\* has the source's length and the source's bytes, whether it was shorter
\* or longer than the source.
C38_LengthRepaired ==
    (engine = "sync" /\ FaultFreeSync) =>
        \A p \in SyncFiles :
            (AllChunksHandled(p) /\ Len(before.dst[p].data) # Len(SyncSrcData(p))) =>
                /\ Len(dst[p].data) = Len(SyncSrcData(p))
                /\ dst[p].data = SyncSrcData(p)

\* what the producer of a sync started now would do with file p
NextSyncOutcome(p) ==
    SyncFileOutcome(p, Len(SyncSrcData(p)), dst[p], chunk_size,
                    [src_meta |-> TRUE, copy |-> TRUE])

\* C40: sync reaches a fixpoint: after a fault-free sync, a following sync
\* of the unchanged source skips every file through the size and mtime
\* shortcut and writes nothing, every file the first sync copied or rewrote
\* having the source's size and modification time.
C40_SyncFixpoint ==
    (SyncSettled /\ FaultFreeSync) =>
        \A p \in SyncFiles :
            /\ NextSyncOutcome(p).route = "skip"
            /\ NextSyncOutcome(p).ops = {}
            /\ Len(dst[p].data) = Len(SyncSrcData(p))
            /\ dst[p].mtime = SyncSrc(p).mtime

=============================================================================
